---- MODULE Spec2Model ----
(***************************************************************************)
(* A model of the storage core of leveldb (zhengzber/leveldb): the sharded *)
(* LRU block cache, the memtable over its skip list, the write-ahead log   *)
(* writer and reader, the filter block of the table builder and the write  *)
(* batch.  Every component is one group of variables with its own          *)
(* specification (SpecCache, SpecMem, SpecLog, SpecSkip, SpecTable,        *)
(* SpecBatch); a specification leaves the other groups unchanged.          *)
(***************************************************************************)
EXTENDS Integers, Sequences, FiniteSets, TLC

VARIABLES
  shard,      \* util/cache.cc: one LRUCache object (fields of the class)
  held,       \* cache clients: held[e] = unreleased Cache::Handle* to entry e
  lastOp,     \* cache: the last call made on the shard and what it returned
  mem,        \* db/memtable.cc: MemTable::table_, the skip list of entries
  added,      \* memtable: the Add calls made so far (sequence, type, key, value)
  memGet,     \* memtable: the Get call made since the last Add, and its result
  log,        \* db/log_writer.cc: the Writer and the file dest_ it appends to
  written,    \* log: the payload sizes given to AddRecord, in order
  reader,     \* db/log_reader.cc: the Reader, its file and what it reported
  got,        \* log: the records ReadRecord has returned, with LastRecordOffset
  skip,       \* db/skiplist.h: a SkipList shared by a writer and readers
  writer,     \* skip list: the thread in Insert, its locals and its position
  readers,    \* skip list: the reading threads, their locals and positions
  completed,  \* skip list: the keys whose Insert has returned
  table,      \* table/table_builder.cc: TableBuilder::Rep, with the file
  probe,      \* table: the last FilterBlockReader::KeyMayMatch call
  batch,      \* db/write_batch.cc: WriteBatch::rep_
  batchOps,   \* write batch: the records put into the batch, in order
  batchRun,   \* write batch: the Iterate or InsertInto made on the batch as it is
  ikeys,      \* db/dbformat: the internal keys at hand, parsed and encoded
  order,      \* internal keys: the result of the last call made on them
  mutex,      \* util/cache.cc: LRUCache::mutex_, the thread that holds it or 0
  threads,    \* cache: the threads calling into the shard, their positions
  serial,     \* cache: the shard the calls give when run one after the other
  sharded,    \* util/cache.cc: a ShardedLRUCache, its array shard_
  clients,    \* sharded cache: the hash in use, the handles held, the last call
  snapshots,  \* db/snapshot.h: a SnapshotList, its nodes' prev_, next_, number_
  created,    \* snapshots: those New returned and Delete has not had, in order
  tbl,        \* table/table.cc: Table::Rep, whether options.block_cache is set
  blockHeap,  \* table: the Block objects Table::BlockReader has allocated
  iters       \* table: the iterators Table::BlockReader has returned

cacheVars == <<shard, held, lastOp>>

memVars == <<mem, added, memGet>>

logVars == <<log, written, reader, got>>

skipVars == <<skip, writer, readers, completed>>

tableVars == <<table, probe>>

batchVars == <<batch, batchOps, batchRun>>

orderVars == <<ikeys, order>>

\* The components added after the first six
mtVars == <<mutex, threads, serial>>

shardedVars == <<sharded, clients>>

snapVars == <<snapshots, created>>

blockVars == <<tbl, blockHeap, iters>>

moreVars == <<orderVars, mtVars, shardedVars, snapVars, blockVars>>

vars == <<shard, held, lastOp, mem, added, memGet, log, written, reader, got,
          skip, writer, readers, completed, table, probe,
          batch, batchOps, batchRun, ikeys, order, mutex, threads, serial,
          sharded, clients, snapshots, created, tbl, blockHeap, iters>>

\* A component that a specification does not exercise stays in this state.
IdleCache == shard = 0 /\ held = 0 /\ lastOp = 0

IdleMem == mem = 0 /\ added = 0 /\ memGet = 0

IdleLog == log = 0 /\ written = 0 /\ reader = 0 /\ got = 0

IdleSkip == skip = 0 /\ writer = 0 /\ readers = 0 /\ completed = 0

IdleTable == table = 0 /\ probe = 0

IdleBatch == batch = 0 /\ batchOps = 0 /\ batchRun = 0

IdleOrder == ikeys = 0 /\ order = 0

IdleMT == mutex = 0 /\ threads = 0 /\ serial = 0

IdleSharded == sharded = 0 /\ clients = 0

IdleSnap == snapshots = 0 /\ created = 0

IdleBlock == tbl = 0 /\ blockHeap = 0 /\ iters = 0

IdleMore == IdleOrder /\ IdleMT /\ IdleSharded /\ IdleSnap /\ IdleBlock

\* What each specification leaves alone
OnlyCache == IdleMem /\ IdleLog /\ IdleSkip /\ IdleTable /\ IdleBatch /\ IdleMore
OnlyMem == IdleCache /\ IdleLog /\ IdleSkip /\ IdleTable /\ IdleBatch /\ IdleMore
OnlyLog == IdleCache /\ IdleMem /\ IdleSkip /\ IdleTable /\ IdleBatch /\ IdleMore
OnlySkip == IdleCache /\ IdleMem /\ IdleLog /\ IdleTable /\ IdleBatch /\ IdleMore
OnlyTable == IdleCache /\ IdleMem /\ IdleLog /\ IdleSkip /\ IdleBatch /\ IdleMore
OnlyBatch == IdleCache /\ IdleMem /\ IdleLog /\ IdleSkip /\ IdleTable /\ IdleMore

notCache == <<memVars, logVars, skipVars, tableVars, batchVars, moreVars>>
notMem == <<cacheVars, logVars, skipVars, tableVars, batchVars, moreVars>>
notLog == <<cacheVars, memVars, skipVars, tableVars, batchVars, moreVars>>
notSkip == <<cacheVars, memVars, logVars, tableVars, batchVars, moreVars>>
notTable == <<cacheVars, memVars, logVars, skipVars, batchVars, moreVars>>
notBatch == <<cacheVars, memVars, logVars, skipVars, tableVars, moreVars>>

OnlyOrder ==
  /\ IdleCache /\ IdleMem /\ IdleLog /\ IdleSkip /\ IdleTable /\ IdleBatch
  /\ IdleMT /\ IdleSharded /\ IdleSnap /\ IdleBlock
notOrder ==
  <<cacheVars, memVars, logVars, skipVars, tableVars, batchVars, mtVars,
    shardedVars, snapVars, blockVars>>

OnlyCacheMT ==
  /\ IdleMem /\ IdleLog /\ IdleSkip /\ IdleTable /\ IdleBatch /\ IdleOrder
  /\ IdleSharded /\ IdleSnap /\ IdleBlock
notCacheMT ==
  <<memVars, logVars, skipVars, tableVars, batchVars, orderVars, shardedVars,
    snapVars, blockVars>>

OnlySharded ==
  /\ IdleCache /\ IdleMem /\ IdleLog /\ IdleSkip /\ IdleTable /\ IdleBatch
  /\ IdleOrder /\ IdleMT /\ IdleSnap /\ IdleBlock
notSharded ==
  <<cacheVars, memVars, logVars, skipVars, tableVars, batchVars, orderVars,
    mtVars, snapVars, blockVars>>

OnlySnap ==
  /\ IdleCache /\ IdleMem /\ IdleLog /\ IdleSkip /\ IdleTable /\ IdleBatch
  /\ IdleOrder /\ IdleMT /\ IdleSharded /\ IdleBlock
notSnap ==
  <<cacheVars, memVars, logVars, skipVars, tableVars, batchVars, orderVars,
    mtVars, shardedVars, blockVars>>

\* The block reader works on the shard of the cache model
OnlyBlock ==
  /\ IdleMem /\ IdleLog /\ IdleSkip /\ IdleTable /\ IdleBatch
  /\ IdleOrder /\ IdleMT /\ IdleSharded /\ IdleSnap
notBlock ==
  <<memVars, logVars, skipVars, tableVars, batchVars, orderVars, mtVars,
    shardedVars, snapVars>>

----------------------------------------------------------------------------
(* Generic helpers                                                          *)

\* The only element of a set of one element
The(S) == CHOOSE x \in S : TRUE

Min(a, b) == IF a < b THEN a ELSE b

Max(a, b) == IF a > b THEN a ELSE b

Range(s) == {s[i] : i \in DOMAIN s}

\* 1 << n
Pow2(n) == 2 ^ n

\* The sequence s without the element at position i.
RemoveAt(s, i) == SubSeq(s, 1, i - 1) \o SubSeq(s, i + 1, Len(s))

----------------------------------------------------------------------------
(* util/cache.cc: LRUCache, one shard of the sharded cache                  *)

\* Bounds of the cache model.
NumKeys == 2          \* cache keys are 1..NumKeys
MaxInserts == 3       \* Insert calls (entries ever allocated) per behaviour
MaxPins == 2          \* unreleased handles a client keeps on one entry
MaxCharge == 2        \* charges are 1..MaxCharge
MaxCapacity == 2      \* the shard's capacity is 0 (caching off) or MaxCapacity

CacheKeys == 1..NumKeys

\* Pointer values: NULL, the two dummy list heads (LRUCache::lru_ and
\* LRUCache::in_use_), and the value of a pointer field malloc() left unset.
NULL == 0
LruHead == -1
InUseHead == -2
Uninit == -3

\* The key hash handed to the shard by ShardedLRUCache (HashSlice): a fixed
\* function of the key.  Keys 1 and 3 fall into the same bucket of a table of
\* length 4 with different hashes; key 4 has the very hash of key 1.
KeyHash(k) == IF k = 3 THEN 5 ELSE IF k = 4 THEN 1 ELSE k

\* LRUCache::LRUCache and HandleTable::HandleTable: empty circular lists, a
\* table of 4 empty buckets (the first Resize).  handles is the heap of
\* LRUHandle objects, indexed by allocation order.
NewShard(cap) ==
  [capacity_ |-> cap, usage_ |-> 0, handles |-> << >>,
   next |-> (LruHead :> LruHead) @@ (InUseHead :> InUseHead),
   prev |-> (LruHead :> LruHead) @@ (InUseHead :> InUseHead),
   list_ |-> <<<< >>, << >>, << >>, << >>>>, elems_ |-> 0]

\* The nodes reached from a list head by following next until the head comes
\* round again (the list's members, oldest first).
RECURSIVE Walk(_, _, _, _)
Walk(nx, head, cur, fuel) ==
  IF cur = head \/ fuel = 0 \/ cur \notin DOMAIN nx THEN << >>
  ELSE <<cur>> \o Walk(nx, head, nx[cur], fuel - 1)

ListOf(c, head) == Walk(c.next, head, c.next[head], Len(c.handles) + 1)

OnList(c, head, e) == e \in Range(ListOf(c, head))

\* HandleTable::FindPointer: the position in the bucket's chain of the entry
\* with this key and hash, or one past the chain's end.
Bucket(c, hash) == (hash % Len(c.list_)) + 1

RECURSIVE FindInChain(_, _, _, _, _)
FindInChain(c, chain, i, key, hash) ==
  IF i > Len(chain) THEN i
  ELSE IF c.handles[chain[i]].hash = hash /\ c.handles[chain[i]].key = key THEN i
  ELSE FindInChain(c, chain, i + 1, key, hash)

FindPointer(c, key, hash) == FindInChain(c, c.list_[Bucket(c, hash)], 1, key, hash)

\* HandleTable::Lookup
TableLookup(c, key, hash) ==
  LET chain == c.list_[Bucket(c, hash)]
      i == FindPointer(c, key, hash)
  IN IF i > Len(chain) THEN NULL ELSE chain[i]

\* HandleTable::Resize: the new length is the first power of two from 4 that
\* is not below elems_; every chain is walked in order and each entry is
\* pushed on the front of its new bucket.
RECURSIVE NewLength(_, _)
NewLength(len, elems) == IF len < elems THEN NewLength(len * 2, elems) ELSE len

RECURSIVE Rehash(_, _, _)
Rehash(c, todo, lists) ==
  IF todo = << >> THEN lists
  ELSE LET h == Head(todo)
           b == (c.handles[h].hash % Len(lists)) + 1
       IN Rehash(c, Tail(todo), [lists EXCEPT ![b] = <<h>> \o @])

RECURSIVE Flatten(_)
Flatten(ss) == IF ss = << >> THEN << >> ELSE Head(ss) \o Flatten(Tail(ss))

Resize(c) ==
  LET n == NewLength(4, c.elems_)
  IN [c EXCEPT !.list_ = Rehash(c, Flatten(c.list_), [i \in 1..n |-> << >>])]

\* A HandleTable::Insert that never looks for an entry with the key of h
TableInsertNoReplace(c, h) ==
  LET b == Bucket(c, c.handles[h].hash)
      c1 == [c EXCEPT !.list_[b] = Append(@, h), !.elems_ = @ + 1]
  IN [c |-> IF c1.elems_ > Len(c1.list_) THEN Resize(c1) ELSE c1, old |-> NULL]

\* HandleTable::Insert: h takes the place of the entry with its key, or goes
\* to the end of the chain; returns the table and the entry it replaced.
TableInsert(c, h) ==
  LET b == Bucket(c, c.handles[h].hash)
      chain == c.list_[b]
      i == FindPointer(c, c.handles[h].key, c.handles[h].hash)
      old == IF i > Len(chain) THEN NULL ELSE chain[i]
      put == IF old = NULL THEN Append(chain, h) ELSE [chain EXCEPT ![i] = h]
      c1 == [c EXCEPT !.list_[b] = put]
      c2 == IF old = NULL
            THEN LET c3 == [c1 EXCEPT !.elems_ = @ + 1]
                 IN IF c3.elems_ > Len(c3.list_) THEN Resize(c3) ELSE c3
            ELSE c1
  IN [c |-> c2, old |-> old]

\* HandleTable::Remove
TableRemove(c, key, hash) ==
  LET b == Bucket(c, hash)
      chain == c.list_[b]
      i == FindPointer(c, key, hash)
  IN IF i > Len(chain) THEN [c |-> c, old |-> NULL]
     ELSE [c |-> [c EXCEPT !.list_[b] = RemoveAt(chain, i), !.elems_ = @ - 1],
           old |-> chain[i]]

\* LRUCache::LRU_Remove
LRU_Remove(c, e) ==
  LET p1 == [c.prev EXCEPT ![c.next[e]] = c.prev[e]]
      n1 == [c.next EXCEPT ![p1[e]] = c.next[e]]
  IN [c EXCEPT !.prev = p1, !.next = n1]

\* An LRU_Append that links e in just after *list, at the oldest end.
LRU_AppendOldest(c, list, e) ==
  LET n1 == [c.next EXCEPT ![e] = c.next[list]]
      p1 == [c.prev EXCEPT ![e] = list]
      n2 == [n1 EXCEPT ![list] = e]
      p2 == [p1 EXCEPT ![n1[e]] = e]
  IN [c EXCEPT !.next = n2, !.prev = p2]

\* LRUCache::LRU_Append: e becomes the newest entry, just before *list.
LRU_Append(c, list, e) ==
  LET n1 == [c.next EXCEPT ![e] = list]
      p1 == [c.prev EXCEPT ![e] = c.prev[list]]
      n2 == [n1 EXCEPT ![p1[e]] = e]
      p2 == [p1 EXCEPT ![n2[e]] = e]
  IN [c EXCEPT !.next = n2, !.prev = p2]

\* LRUCache::Ref
Ref(c, e) ==
  LET c1 == IF c.handles[e].refs = 1 /\ c.handles[e].in_cache
            THEN LRU_Append(LRU_Remove(c, e), InUseHead, e)
            ELSE c
  IN [c1 EXCEPT !.handles[e].refs = @ + 1]

\* An Unref that leaves an entry that lost its last client on the in-use list.
UnrefNoMove(c, e) ==
  LET c1 == [c EXCEPT !.handles[e].refs = @ - 1]
  IN IF c1.handles[e].refs = 0
     THEN [c1 EXCEPT !.handles[e].deleted = @ + 1, !.handles[e].freed = TRUE,
                     !.next[e] = Uninit, !.prev[e] = Uninit]
     ELSE c1

\* LRUCache::Unref: at refs = 0 the deleter is called and the entry freed (the
\* freed object's list pointers are no longer anybody's to read).
Unref(c, e) ==
  LET c1 == [c EXCEPT !.handles[e].refs = @ - 1]
  IN IF c1.handles[e].refs = 0
     THEN [c1 EXCEPT !.handles[e].deleted = @ + 1, !.handles[e].freed = TRUE,
                     !.next[e] = Uninit, !.prev[e] = Uninit]
     ELSE IF c1.handles[e].in_cache /\ c1.handles[e].refs = 1
     THEN LRU_Append(LRU_Remove(c1, e), LruHead, e)
     ELSE c1

\* A FinishErase that destroys the entry at once, whatever its reference count.
FinishEraseFreeNow(c, e) ==
  IF e # NULL
  THEN LET c1 == LRU_Remove(c, e)
       IN [c1 EXCEPT !.handles[e].in_cache = FALSE,
                     !.usage_ = @ - c1.handles[e].charge,
                     !.handles[e].refs = @ - 1,
                     !.handles[e].deleted = @ + 1, !.handles[e].freed = TRUE]
  ELSE c

\* A FinishErase that leaves usage_ as it is
FinishEraseKeepUsage(c, e) ==
  IF e # NULL
  THEN LET c1 == LRU_Remove(c, e)
           c2 == [c1 EXCEPT !.handles[e].in_cache = FALSE]
       IN Unref(c2, e)
  ELSE c

\* LRUCache::FinishErase
FinishErase(c, e) ==
  IF e # NULL
  THEN LET c1 == LRU_Remove(c, e)
           c2 == [c1 EXCEPT !.handles[e].in_cache = FALSE,
                            !.usage_ = @ - c1.handles[e].charge]
       IN Unref(c2, e)
  ELSE c

\* The loop shared by LRUCache::Insert (while over capacity) and
\* LRUCache::Prune: take lru_.next, remove it from the table, FinishErase it.
EvictOldest(c) ==
  LET old == c.next[LruHead]
      r == TableRemove(c, c.handles[old].key, c.handles[old].hash)
  IN FinishErase(r.c, r.old)

\* An eviction loop that goes on to the in-use list once the lru list is empty.
RECURSIVE EvictLoopPinned(_)
EvictLoopPinned(c) ==
  IF c.usage_ > c.capacity_ /\ c.next[LruHead] # LruHead
  THEN EvictLoopPinned(EvictOldest(c))
  ELSE IF c.usage_ > c.capacity_ /\ c.next[InUseHead] # InUseHead
  THEN LET old == c.next[InUseHead]
           r == TableRemove(c, c.handles[old].key, c.handles[old].hash)
       IN EvictLoopPinned(FinishErase(r.c, r.old))
  ELSE c

RECURSIVE EvictLoop(_)
EvictLoop(c) ==
  IF c.usage_ > c.capacity_ /\ c.next[LruHead] # LruHead
  THEN EvictLoop(EvictOldest(c))
  ELSE c

\* An Insert that returns without its eviction loop
CacheInsertNoEvict(c, key, hash, charge) ==
  LET e == Len(c.handles) + 1
      c1 == [c EXCEPT !.handles = Append(@, [key |-> key, hash |-> hash,
                                   charge |-> charge, in_cache |-> FALSE,
                                   refs |-> 1, freed |-> FALSE, deleted |-> 0]),
                      !.next = @ @@ (e :> Uninit),
                      !.prev = @ @@ (e :> Uninit)]
  IN IF c1.capacity_ > 0
     THEN LET c3 == [c1 EXCEPT !.handles[e].refs = @ + 1,
                               !.handles[e].in_cache = TRUE]
              c4 == LRU_Append(c3, InUseHead, e)
              c5 == [c4 EXCEPT !.usage_ = @ + charge]
              r == TableInsert(c5, e)
          IN FinishErase(r.c, r.old)
     ELSE c1

\* LRUCache::Insert; the new entry is handle Len(handles) + 1.
CacheInsert(c, key, hash, charge) ==
  LET e == Len(c.handles) + 1
      c1 == [c EXCEPT !.handles = Append(@, [key |-> key, hash |-> hash,
                                   charge |-> charge, in_cache |-> FALSE,
                                   refs |-> 1, freed |-> FALSE, deleted |-> 0]),
                      !.next = @ @@ (e :> Uninit),
                      !.prev = @ @@ (e :> Uninit)]
      c2 == IF c1.capacity_ > 0
            THEN LET c3 == [c1 EXCEPT !.handles[e].refs = @ + 1,
                                      !.handles[e].in_cache = TRUE]
                     c4 == LRU_Append(c3, InUseHead, e)
                     c5 == [c4 EXCEPT !.usage_ = @ + charge]
                     r == TableInsert(c5, e)
                 IN FinishErase(r.c, r.old)
            ELSE c1
  IN EvictLoop(c2)

\* LRUCache::Lookup
CacheLookup(c, key, hash) ==
  LET e == TableLookup(c, key, hash)
  IN [c |-> IF e # NULL THEN Ref(c, e) ELSE c, e |-> e]

\* LRUCache::Release
CacheRelease(c, e) == Unref(c, e)

\* LRUCache::Erase
CacheErase(c, key, hash) ==
  LET r == TableRemove(c, key, hash) IN FinishErase(r.c, r.old)

\* LRUCache::Prune
RECURSIVE CachePrune(_)
CachePrune(c) ==
  IF c.next[LruHead] # LruHead THEN CachePrune(EvictOldest(c)) ELSE c

\* LRUCache::TotalCharge
TotalCharge(c) == c.usage_

\* The entries of the shard and the ones the hash table holds.
Entries == 1..Len(shard.handles)

InTable(c, e) == \E b \in DOMAIN c.list_ : e \in Range(c.list_[b])

InitCache ==
  /\ \E cap \in {0, MaxCapacity} : shard = NewShard(cap)
  /\ held = << >>
  /\ lastOp = [op |-> "none", key |-> 0, e |-> NULL]
  /\ OnlyCache

\* A client calls Insert and keeps the handle it returns.
Insert(key, charge) ==
  /\ Len(shard.handles) < MaxInserts
  /\ shard' = CacheInsert(shard, key, KeyHash(key), charge)
  /\ held' = Append(held, 1)
  /\ lastOp' = [op |-> "Insert", key |-> key, e |-> Len(shard.handles) + 1]
  /\ UNCHANGED notCache

\* A client calls Lookup and, on a hit, keeps the handle.
Lookup(key) ==
  LET r == CacheLookup(shard, key, KeyHash(key))
  IN /\ r.e # NULL => held[r.e] < MaxPins
     /\ shard' = r.c
     /\ held' = IF r.e # NULL THEN [held EXCEPT ![r.e] = @ + 1] ELSE held
     /\ lastOp' = [op |-> "Lookup", key |-> key, e |-> r.e]
     /\ UNCHANGED notCache

\* A client releases one of the handles it holds (each exactly once).
Release(e) ==
  /\ held[e] > 0
  /\ shard' = CacheRelease(shard, e)
  /\ held' = [held EXCEPT ![e] = @ - 1]
  /\ lastOp' = [op |-> "Release", key |-> shard.handles[e].key, e |-> e]
  /\ UNCHANGED notCache

Erase(key) ==
  /\ shard' = CacheErase(shard, key, KeyHash(key))
  /\ lastOp' = [op |-> "Erase", key |-> key, e |-> NULL]
  /\ UNCHANGED <<held, notCache>>

Prune ==
  /\ shard' = CachePrune(shard)
  /\ lastOp' = [op |-> "Prune", key |-> 0, e |-> NULL]
  /\ UNCHANGED <<held, notCache>>

NextCache ==
  \/ \E k \in CacheKeys, ch \in 1..MaxCharge : Insert(k, ch)
  \/ \E k \in CacheKeys : Lookup(k)
  \/ \E e \in Entries : Release(e)
  \/ \E k \in CacheKeys : Erase(k)
  \/ Prune

SpecCache == InitCache /\ [][NextCache]_vars

\* A shard that caches, used with one key more than CacheKeys so that the
\* lru list holds two entries when an Insert of a third key evicts.
LruKeys == 1..(NumKeys + 1)

InitCacheLru ==
  /\ shard = NewShard(MaxCapacity)
  /\ held = << >>
  /\ lastOp = [op |-> "none", key |-> 0, e |-> NULL]
  /\ OnlyCache

NextCacheLru ==
  \/ \E k \in LruKeys, ch \in 1..MaxCharge : Insert(k, ch)
  \/ \E k \in LruKeys : Lookup(k)
  \/ \E e \in Entries : Release(e)

SpecCacheLru == InitCacheLru /\ [][NextCacheLru]_vars

(***************************************************************************)
(* util/cache.cc, one shard called from several threads.  Every method     *)
(* begins with MutexLock l(&mutex_) and the lock is released on return; a  *)
(* thread takes one step for the lock and one for each part of the body.   *)
(***************************************************************************)

NumThreads == 2       \* threads calling into the shard
MaxCalls == 4         \* calls made on the shard per behaviour

ThreadIdle ==
  [pc |-> "idle", op |-> "none", key |-> 0, charge |-> 0, e |-> NULL,
   ret |-> NULL, expect |-> NULL]

\* A lock that is handed out while another thread holds it
MutexNeverBusy(m) == TRUE

\* port::Mutex::Lock returns once no thread holds the mutex
MutexFree(m) == m = 0

\* Insert up to the table: the new entry, its two references, the in-use
\* list and usage_
InsertAlloc(c, key, hash, charge) ==
  LET e == Len(c.handles) + 1
      c1 == [c EXCEPT !.handles = Append(@, [key |-> key, hash |-> hash,
                                   charge |-> charge, in_cache |-> FALSE,
                                   refs |-> 1, freed |-> FALSE, deleted |-> 0]),
                      !.next = @ @@ (e :> Uninit),
                      !.prev = @ @@ (e :> Uninit)]
  IN IF c1.capacity_ > 0
     THEN LET c3 == [c1 EXCEPT !.handles[e].refs = @ + 1,
                               !.handles[e].in_cache = TRUE]
              c4 == LRU_Append(c3, InUseHead, e)
          IN [c4 EXCEPT !.usage_ = @ + charge]
     ELSE c1

\* Insert: FinishErase(table_.Insert(e))
InsertTable(c, e) ==
  IF c.capacity_ > 0
  THEN LET r == TableInsert(c, e) IN FinishErase(r.c, r.old)
  ELSE c

\* Ref: the move from the lru list to the in-use list
RefMove(c, e) ==
  IF c.handles[e].refs = 1 /\ c.handles[e].in_cache
  THEN LRU_Append(LRU_Remove(c, e), InUseHead, e)
  ELSE c

\* Ref: e->refs++
RefInc(c, e) == [c EXCEPT !.handles[e].refs = @ + 1]

\* Unref: e->refs--
UnrefDec(c, e) == [c EXCEPT !.handles[e].refs = @ - 1]

\* Unref after the decrement: the deleter and free, or the move to lru_
UnrefFix(c, e) ==
  IF c.handles[e].refs = 0
  THEN [c EXCEPT !.handles[e].deleted = @ + 1, !.handles[e].freed = TRUE,
                 !.next[e] = Uninit, !.prev[e] = Uninit]
  ELSE IF c.handles[e].in_cache /\ c.handles[e].refs = 1
  THEN LRU_Append(LRU_Remove(c, e), LruHead, e)
  ELSE c

InitCacheMT ==
  /\ shard = NewShard(MaxCapacity)
  /\ held = << >>
  /\ lastOp = [op |-> "none", key |-> 0, e |-> NULL]
  /\ mutex = 0
  /\ threads = [t \in 1..NumThreads |-> ThreadIdle]
  /\ serial = [c |-> NewShard(MaxCapacity), calls |-> 0]
  /\ OnlyCacheMT

\* Thread t calls a method of the shard.  A Release is of a handle a client
\* holds, which is given up with the call.
Call(t, op, key, charge, e) ==
  /\ threads[t].pc = "idle"
  /\ serial.calls < MaxCalls
  /\ op = "Release" => (e \in DOMAIN held /\ held[e] > 0)
  /\ threads' = [threads EXCEPT ![t] =
                   [ThreadIdle EXCEPT !.pc = "lock", !.op = op, !.key = key,
                                      !.charge = charge, !.e = e]]
  /\ held' = IF op = "Release" THEN [held EXCEPT ![e] = @ - 1] ELSE held
  /\ serial' = [serial EXCEPT !.calls = @ + 1]
  /\ UNCHANGED <<shard, lastOp, mutex, notCacheMT>>

\* MutexLock l(&mutex_).  The calls take effect in the order of their locks:
\* serial is the shard after the same calls made one at a time.
Lock(t) ==
  LET th == threads[t]
      hash == KeyHash(th.key)
  IN /\ th.pc = "lock"
     /\ MutexFree(mutex)
     /\ mutex' = t
     /\ serial' = [serial EXCEPT !.c =
          IF th.op = "Insert" THEN CacheInsert(@, th.key, hash, th.charge)
          ELSE IF th.op = "Lookup" THEN CacheLookup(@, th.key, hash).c
          ELSE IF th.op = "Release" THEN CacheRelease(@, th.e)
          ELSE IF th.op = "Erase" THEN CacheErase(@, th.key, hash)
          ELSE CachePrune(@)]
     /\ threads' = [threads EXCEPT ![t] = [th EXCEPT
          !.pc = IF th.op = "Insert" THEN "ins_alloc"
                 ELSE IF th.op = "Lookup" THEN "look_find"
                 ELSE IF th.op = "Release" THEN "rel_dec"
                 ELSE IF th.op = "Erase" THEN "erase_remove"
                 ELSE "prune",
          !.expect = IF th.op = "Insert" THEN Len(serial.c.handles) + 1
                     ELSE IF th.op = "Lookup"
                     THEN CacheLookup(serial.c, th.key, hash).e
                     ELSE NULL]]
     /\ UNCHANGED <<shard, held, lastOp, notCacheMT>>

\* The return of a method: the result goes to the caller and the MutexLock
\* goes out of scope
Return(t, ret) ==
  /\ threads' = [threads EXCEPT ![t] = [@ EXCEPT !.pc = "idle", !.ret = ret]]
  /\ mutex' = 0

\* Insert: malloc, the fields of the entry, LRU_Append(&in_use_, e), usage_
InsertStepAlloc(t) ==
  LET th == threads[t]
  IN /\ th.pc = "ins_alloc"
     /\ shard' = InsertAlloc(shard, th.key, KeyHash(th.key), th.charge)
     /\ held' = Append(held, 0)
     /\ threads' = [threads EXCEPT ![t] =
                      [th EXCEPT !.pc = "ins_table", !.e = Len(shard.handles) + 1]]
     /\ UNCHANGED <<lastOp, mutex, serial, notCacheMT>>

\* Insert: FinishErase(table_.Insert(e))
InsertStepTable(t) ==
  /\ threads[t].pc = "ins_table"
  /\ shard' = InsertTable(shard, threads[t].e)
  /\ threads' = [threads EXCEPT ![t].pc = "ins_evict"]
  /\ UNCHANGED <<held, lastOp, mutex, serial, notCacheMT>>

\* Insert: the eviction loop and the return of the handle
InsertStepEvict(t) ==
  /\ threads[t].pc = "ins_evict"
  /\ shard' = EvictLoop(shard)
  /\ held' = [held EXCEPT ![threads[t].e] = 1]
  /\ Return(t, threads[t].e)
  /\ UNCHANGED <<lastOp, serial, notCacheMT>>

\* Lookup: table_.Lookup(key, hash), and the return of NULL on a miss
LookupStepFind(t) ==
  LET e == TableLookup(shard, threads[t].key, KeyHash(threads[t].key))
  IN /\ threads[t].pc = "look_find"
     /\ IF e = NULL
        THEN Return(t, NULL)
        ELSE /\ threads' = [threads EXCEPT ![t].pc = "look_move", ![t].e = e]
             /\ UNCHANGED mutex
     /\ UNCHANGED <<shard, held, lastOp, serial, notCacheMT>>

\* Lookup, in Ref: the move to the in-use list
LookupStepMove(t) ==
  /\ threads[t].pc = "look_move"
  /\ shard' = RefMove(shard, threads[t].e)
  /\ threads' = [threads EXCEPT ![t].pc = "look_inc"]
  /\ UNCHANGED <<held, lastOp, mutex, serial, notCacheMT>>

\* Lookup, in Ref: e->refs++, and the return of the handle
LookupStepInc(t) ==
  /\ threads[t].pc = "look_inc"
  /\ shard' = RefInc(shard, threads[t].e)
  /\ held' = [held EXCEPT ![threads[t].e] = @ + 1]
  /\ Return(t, threads[t].e)
  /\ UNCHANGED <<lastOp, serial, notCacheMT>>

\* Release, in Unref: e->refs--
ReleaseStepDec(t) ==
  /\ threads[t].pc = "rel_dec"
  /\ shard' = UnrefDec(shard, threads[t].e)
  /\ threads' = [threads EXCEPT ![t].pc = "rel_fix"]
  /\ UNCHANGED <<held, lastOp, mutex, serial, notCacheMT>>

\* Release, in Unref: what follows the decrement, and the return
ReleaseStepFix(t) ==
  /\ threads[t].pc = "rel_fix"
  /\ shard' = UnrefFix(shard, threads[t].e)
  /\ Return(t, NULL)
  /\ UNCHANGED <<held, lastOp, serial, notCacheMT>>

\* Erase: table_.Remove(key, hash)
EraseStepRemove(t) ==
  LET r == TableRemove(shard, threads[t].key, KeyHash(threads[t].key))
  IN /\ threads[t].pc = "erase_remove"
     /\ shard' = r.c
     /\ threads' = [threads EXCEPT ![t].pc = "erase_finish", ![t].e = r.old]
     /\ UNCHANGED <<held, lastOp, mutex, serial, notCacheMT>>

\* Erase: FinishErase of what Remove returned, and the return
EraseStepFinish(t) ==
  /\ threads[t].pc = "erase_finish"
  /\ shard' = FinishErase(shard, threads[t].e)
  /\ Return(t, NULL)
  /\ UNCHANGED <<held, lastOp, serial, notCacheMT>>

\* Prune: one iteration of the loop, or the return once lru_ is empty
PruneStep(t) ==
  /\ threads[t].pc = "prune"
  /\ IF shard.next[LruHead] # LruHead
     THEN /\ shard' = EvictOldest(shard)
          /\ UNCHANGED <<threads, mutex>>
     ELSE /\ Return(t, NULL)
          /\ UNCHANGED shard
  /\ UNCHANGED <<held, lastOp, serial, notCacheMT>>

NextCacheMT ==
  \E t \in 1..NumThreads :
    \/ \E k \in CacheKeys, ch \in 1..MaxCharge : Call(t, "Insert", k, ch, NULL)
    \/ \E k \in CacheKeys : Call(t, "Lookup", k, 0, NULL)
    \/ \E e \in Entries : Call(t, "Release", 0, 0, e)
    \/ \E k \in CacheKeys : Call(t, "Erase", k, 0, NULL)
    \/ Call(t, "Prune", 0, 0, NULL)
    \/ Lock(t)
    \/ InsertStepAlloc(t) \/ InsertStepTable(t) \/ InsertStepEvict(t)
    \/ LookupStepFind(t) \/ LookupStepMove(t) \/ LookupStepInc(t)
    \/ ReleaseStepDec(t) \/ ReleaseStepFix(t)
    \/ EraseStepRemove(t) \/ EraseStepFinish(t)
    \/ PruneStep(t)

SpecCacheMT == InitCacheMT /\ [][NextCacheMT]_vars

(***************************************************************************)
(* util/cache.cc: ShardedLRUCache.  A uint32_t hash is held as the signed   *)
(* 32-bit number with the same bits (hashes from 2^31 on are negative), so *)
(* that hash >> 28 is a floored division and hash & (length - 1) is %.     *)
(***************************************************************************)

kNumShardBits == 4
kNumShards == Pow2(kNumShardBits)

\* The functions Hash may be (util/hash.cc): keys with the same remainder
\* modulo fn fall into one shard, the low bits being the key.
HashModuli == {2, 16}

\* ShardedLRUCache::HashSlice
HashSlice(fn, key) ==
  LET top == 15 - (key % fn)
  IN (IF top >= 8 THEN top - 16 ELSE top) * Pow2(32 - kNumShardBits) + key

\* ShardedLRUCache::Shard: hash >> (32 - kNumShardBits)
Shard(hash) ==
  LET q == hash \div Pow2(32 - kNumShardBits)
  IN IF hash >= 0 THEN q ELSE q + kNumShards

\* The capacity of every shard, the whole capacity given to every shard
PerShardWhole(capacity) == capacity

\* ShardedLRUCache::ShardedLRUCache: per_shard
PerShard(capacity) == (capacity + (kNumShards - 1)) \div kNumShards

\* ShardedLRUCache::ShardedLRUCache
ShardedLRUCache(capacity) ==
  [shard_ |-> [s \in 0..(kNumShards - 1) |-> NewShard(PerShard(capacity))]]

\* A Cache::Handle*: the LRUHandle numbered e on the heap of a shard
Handle(s, e) == [s |-> s, e |-> e]

\* The Cache::Handle* that is NULL
NoHandle == Handle(0, NULL)

\* An Insert that goes on to empty the lru lists of the other shards
ShardedInsertEvictAll(c, fn, key, charge) ==
  LET hash == HashSlice(fn, key)
  IN [c EXCEPT !.shard_ = [s \in DOMAIN @ |->
        IF s = Shard(hash) THEN CacheInsert(@[s], key, hash, charge)
        ELSE CachePrune(@[s])]]

\* ShardedLRUCache::Insert; the handle returned is that of the new entry
ShardedInsert(c, fn, key, charge) ==
  LET hash == HashSlice(fn, key)
  IN [c EXCEPT !.shard_[Shard(hash)] = CacheInsert(@, key, hash, charge)]

\* ShardedLRUCache::Lookup: the cache after the call and the handle or NULL
ShardedLookup(c, fn, key) ==
  LET hash == HashSlice(fn, key)
      r == CacheLookup(c.shard_[Shard(hash)], key, hash)
  IN [c |-> [c EXCEPT !.shard_[Shard(hash)] = r.c],
      h |-> IF r.e = NULL THEN NoHandle ELSE Handle(Shard(hash), r.e)]

\* ShardedLRUCache::Release: the shard is chosen by h->hash
ShardedRelease(c, h) ==
  LET hash == c.shard_[h.s].handles[h.e].hash
  IN [c EXCEPT !.shard_[Shard(hash)] = CacheRelease(@, h.e)]

\* ShardedLRUCache::Erase
ShardedErase(c, fn, key) ==
  LET hash == HashSlice(fn, key)
  IN [c EXCEPT !.shard_[Shard(hash)] = CacheErase(@, key, hash)]

\* ShardedLRUCache::Prune
ShardedPrune(c) ==
  [c EXCEPT !.shard_ = [s \in DOMAIN @ |-> CachePrune(@[s])]]

ShardedKeys == 1..(NumKeys + 1)
ShardedCapacity == 17   \* the capacity given to NewLRUCache: 2 for each shard

NoCall == [op |-> "none", key |-> 0]

\* The entries ever allocated, over all the shards
RECURSIVE Allocated(_, _)
Allocated(c, s) ==
  IF s < 0 THEN 0 ELSE Len(c.shard_[s].handles) + Allocated(c, s - 1)

InitSharded ==
  /\ sharded = ShardedLRUCache(ShardedCapacity)
  /\ \E fn \in HashModuli :
       clients = [fn |-> fn, held |-> {}, last |-> NoCall, next |-> 0,
                  doomed |-> {}, looked |-> << >>]
  /\ OnlySharded

\* A client calls Insert and keeps the handle
ShInsert(key, charge) ==
  LET s == Shard(HashSlice(clients.fn, key))
      h == Handle(s, Len(sharded.shard_[s].handles) + 1)
  IN /\ Allocated(sharded, kNumShards - 1) < MaxInserts
     /\ sharded' = ShardedInsert(sharded, clients.fn, key, charge)
     /\ clients' = [clients EXCEPT !.held = @ \cup {h},
                       !.last = [op |-> "Insert", key |-> key]]
     /\ UNCHANGED notSharded

\* A client calls Lookup and keeps the handle of a hit; it keeps one handle
\* to an entry at a time
ShLookup(key) ==
  LET r == ShardedLookup(sharded, clients.fn, key)
  IN /\ r.h \notin clients.held
     /\ sharded' = r.c
     /\ clients' = [clients EXCEPT
                       !.held = IF r.h = NoHandle THEN @ ELSE @ \cup {r.h},
                       !.last = [op |-> "Lookup", key |-> key]]
     /\ UNCHANGED notSharded

ShRelease(h) ==
  /\ h \in clients.held
  /\ sharded' = ShardedRelease(sharded, h)
  /\ clients' = [clients EXCEPT
                    !.held = @ \ {h},
                    !.last = [op |-> "Release",
                              key |-> sharded.shard_[h.s].handles[h.e].key]]
  /\ UNCHANGED notSharded

ShErase(key) ==
  /\ sharded' = ShardedErase(sharded, clients.fn, key)
  /\ clients' = [clients EXCEPT !.last = [op |-> "Erase", key |-> key]]
  /\ UNCHANGED notSharded

ShPrune ==
  /\ sharded' = ShardedPrune(sharded)
  /\ clients' = [clients EXCEPT !.last = [op |-> "Prune", key |-> 0]]
  /\ UNCHANGED notSharded

NextSharded ==
  \/ \E k \in ShardedKeys, ch \in 1..MaxCharge : ShInsert(k, ch)
  \/ \E k \in ShardedKeys : ShLookup(k)
  \/ \E h \in clients.held : ShRelease(h)
  \/ \E k \in ShardedKeys : ShErase(k)
  \/ ShPrune

SpecSharded == InitSharded /\ [][NextSharded]_vars

(* Scenario S6: a cache of capacity 100, 20 distinct keys of charge 10 each *)

S6Capacity == 100
S6Keys == 20          \* the keys are 1..S6Keys, inserted in this order
S6Charge == 10
MaxHandles == 2       \* handles the client holds at a time

\* The functions Hash may be in the scenario: all the keys in one shard, odd
\* and even keys apart, key k with key k + 10, key k with key k + 16.
S6HashModuli == {1, 2, 10, 16}

\* The key of the entry a handle refers to
KeyOf(h) == sharded.shard_[h.s].handles[h.e].key

InitS6 ==
  /\ sharded = ShardedLRUCache(S6Capacity)
  /\ \E fn \in S6HashModuli :
       clients = [fn |-> fn, held |-> {}, last |-> NoCall, next |-> 0,
                  doomed |-> {}, looked |-> << >>]
  /\ OnlySharded

\* The next key is inserted.  clients.doomed collects the keys inserted
\* before it into the same shard whose handle had been released by then.
S6Insert ==
  LET key == clients.next + 1
      s == Shard(HashSlice(clients.fn, key))
      h == Handle(s, Len(sharded.shard_[s].handles) + 1)
  IN /\ clients.next < S6Keys
     /\ Cardinality(clients.held) < MaxHandles
     /\ sharded' = ShardedInsert(sharded, clients.fn, key, S6Charge)
     /\ clients' = [clients EXCEPT
          !.held = @ \cup {h},
          !.next = key,
          !.last = [op |-> "Insert", key |-> key],
          !.doomed = @ \cup
             {k \in 1..clients.next :
                /\ Shard(HashSlice(clients.fn, k)) = s
                /\ \A g \in clients.held : KeyOf(g) # k}]
     /\ UNCHANGED notSharded

\* The handle of an Insert or of a Lookup that hit is released
S6Release(h) ==
  /\ h \in clients.held
  /\ sharded' = ShardedRelease(sharded, h)
  /\ clients' = [clients EXCEPT
                    !.held = @ \ {h},
                    !.last = [op |-> "Release", key |-> KeyOf(h)]]
  /\ UNCHANGED notSharded

\* With every key inserted and every handle released the keys are looked up,
\* the most recently inserted first; clients.looked[j] tells whether the
\* Lookup of key S6Keys + 1 - j hit.
S6Lookup ==
  LET key == S6Keys - Len(clients.looked)
      r == ShardedLookup(sharded, clients.fn, key)
  IN /\ clients.next = S6Keys
     /\ clients.held = {}
     /\ key >= 1
     /\ sharded' = r.c
     /\ clients' = [clients EXCEPT
                       !.held = IF r.h = NoHandle THEN @ ELSE @ \cup {r.h},
                       !.last = [op |-> "Lookup", key |-> key],
                       !.looked = Append(@, r.h # NoHandle)]
     /\ UNCHANGED notSharded

NextS6 ==
  \/ S6Insert
  \/ \E h \in clients.held : S6Release(h)
  \/ S6Lookup

SpecS6 == InitS6 /\ [][NextS6]_vars

(* Claims about the cache shard *)

\* C1 as stated: in every reachable state every entry is on the in-use list
\* iff refs >= 2, on the lru list iff refs = 1 and in_cache, and an entry whose
\* refs reached 0 has been passed to its deleter and freed.
C1_ListsByRefsOnly ==
  \A e \in Entries :
    LET h == shard.handles[e]
    IN /\ OnList(shard, InUseHead, e) <=> h.refs >= 2
       /\ OnList(shard, LruHead, e) <=> (h.refs = 1 /\ h.in_cache)
       /\ h.refs = 0 => (h.deleted = 1 /\ h.freed)

\* C1 amended: an entry is on the in-use list iff refs >= 2 and in_cache (an
\* erased or replaced entry that clients still hold is on neither list), on
\* the lru list iff refs = 1 and in_cache, and an entry whose refs reached 0
\* has been passed to its deleter and freed.
C1_ListsByRefsAndInCache ==
  \A e \in Entries :
    LET h == shard.handles[e]
    IN /\ OnList(shard, InUseHead, e) <=> (h.refs >= 2 /\ h.in_cache)
       /\ OnList(shard, LruHead, e) <=> (h.refs = 1 /\ h.in_cache)
       /\ h.refs = 0 => (h.deleted = 1 /\ h.freed)

\* An entry on each list, and a freed entry.
C1_Witness ==
  \E a, b, d \in Entries :
    /\ OnList(shard, InUseHead, a)
    /\ OnList(shard, LruHead, b)
    /\ shard.handles[d].freed

\* C5: an entry with an unreleased handle (refs >= 2) that is in the hash
\* table stays in it across every call, however far usage exceeds capacity,
\* except an Erase of its key or an Insert of its key.
C5_PinnedNeverEvicted ==
  [][\A e \in Entries :
       (shard.handles[e].refs >= 2 /\ InTable(shard, e))
         => \/ InTable(shard', e)
            \/ /\ lastOp'.op \in {"Erase", "Insert"}
               /\ lastOp'.key = shard.handles[e].key]_vars

\* An Insert has just evicted an unpinned entry and left the shard over
\* capacity, with another entry pinned and still in the table.
C5_Witness ==
  /\ lastOp.op = "Insert"
  /\ shard.usage_ > shard.capacity_
  /\ \E e, d \in Entries :
       /\ e # lastOp.e
       /\ shard.handles[e].refs >= 2 /\ InTable(shard, e)
       /\ shard.handles[d].freed /\ shard.handles[d].key # lastOp.key

\* C6: right after Erase(key) a Lookup of the key misses; the deleter of an
\* entry has run exactly once if its reference count is 0 and not at all
\* otherwise; and an entry with an unreleased handle is neither deleted nor
\* freed.
C6_EraseDefersDelete ==
  /\ lastOp.op = "Erase" => TableLookup(shard, lastOp.key, KeyHash(lastOp.key)) = NULL
  /\ \A e \in Entries :
       LET h == shard.handles[e]
       IN /\ h.deleted = (IF h.refs = 0 THEN 1 ELSE 0)
          /\ h.freed <=> h.refs = 0
          /\ held[e] > 0 => (h.refs > 0 /\ h.deleted = 0 /\ ~h.freed)

\* Erase has just removed an entry that a client still holds: it is out of
\* the table, alive, and its deleter has not run.
C6_Witness ==
  /\ lastOp.op = "Erase"
  /\ \E e \in Entries :
       /\ shard.handles[e].key = lastOp.key
       /\ held[e] > 0
       /\ ~shard.handles[e].in_cache /\ ~InTable(shard, e)

\* The handle the last Insert returned is valid: the entry is allocated,
\* alive, counted for the handle, and holds what was inserted.
InsertReturnedHandle ==
  /\ lastOp.e \in Entries
  /\ held[lastOp.e] = 1
  /\ shard.handles[lastOp.e].refs >= 1
  /\ ~shard.handles[lastOp.e].freed
  /\ shard.handles[lastOp.e].key = lastOp.key

\* The entry the last Insert made is the one the cache holds for its key.
InsertAdmitted ==
  /\ shard.handles[lastOp.e].in_cache
  /\ shard.handles[lastOp.e].refs = 2
  /\ TableLookup(shard, lastOp.key, KeyHash(lastOp.key)) = lastOp.e
  /\ OnList(shard, InUseHead, lastOp.e)

\* The eviction loop of Insert ran to its end.
InsertEvicted ==
  shard.usage_ <= shard.capacity_ \/ ListOf(shard, LruHead) = << >>

\* C14 as stated: when Insert returns, the handle is valid, the new entry
\* is in the cache whatever the capacity and the charge, and usage is within
\* capacity or the lru list is empty.
C14_InsertAlwaysAdmits ==
  lastOp.op = "Insert" =>
    InsertReturnedHandle /\ InsertAdmitted /\ InsertEvicted

\* C14 amended: when Insert returns, the handle is valid and usage is
\* within capacity or the lru list is empty; the new entry is in the cache,
\* whatever its charge, if the capacity of the shard is above 0, and with
\* capacity 0 it is not cached: the handle holds its only reference, the
\* table and the lists do not have it and usage does not count it.
C14_InsertAdmitsUnlessOff ==
  lastOp.op = "Insert" =>
    /\ InsertReturnedHandle
    /\ InsertEvicted
    /\ shard.capacity_ > 0 => InsertAdmitted
    /\ shard.capacity_ = 0 =>
         /\ ~shard.handles[lastOp.e].in_cache
         /\ shard.handles[lastOp.e].refs = 1
         /\ TableLookup(shard, lastOp.key, KeyHash(lastOp.key)) = NULL
         /\ ~OnList(shard, InUseHead, lastOp.e) /\ ~OnList(shard, LruHead, lastOp.e)
         /\ shard.usage_ = 0

\* An Insert into a full shard has returned: its entry, whose charge alone
\* is the capacity, is in the cache, and the entry of another key that was
\* on the lru list is gone.
C14_Witness ==
  /\ lastOp.op = "Insert"
  /\ shard.capacity_ = MaxCapacity
  /\ shard.handles[lastOp.e].charge = MaxCapacity
  /\ shard.usage_ = MaxCapacity
  /\ InsertAdmitted
  /\ \E d \in Entries :
       /\ shard.handles[d].freed
       /\ shard.handles[d].key # lastOp.key
       /\ held[d] = 0

\* The sequence s without e
Without(s, e) == SelectSeq(s, LAMBDA x : x # e)

IsSuffix(a, b) ==
  Len(a) <= Len(b) /\ a = SubSeq(b, Len(b) - Len(a) + 1, Len(b))

\* C15: the lru list holds the unpinned entries in the order in which they
\* last became unpinned, and capacity eviction takes them from its head.
\* Across every call: a Release that leaves the cache as the only owner
\* puts the entry at the newest end and moves no other entry; a Lookup takes
\* the entry it pins out of the list and moves no other; and an Insert
\* removes, besides the entry it replaces, a run of entries from the oldest
\* end and nothing else, every victim being unpinned and freed and the last
\* of them taken while usage still exceeded capacity.
C15_EvictOldestFirst ==
  [][LET before == ListOf(shard, LruHead)
         after == ListOf(shard', LruHead)
         e == lastOp'.e
     IN /\ lastOp'.op = "Release" =>
             after = IF shard.handles[e].in_cache /\ shard.handles[e].refs = 2
                     THEN Append(before, e) ELSE before
        /\ lastOp'.op = "Lookup" => after = Without(before, e)
        /\ lastOp'.op = "Insert" =>
             LET old == TableLookup(shard, lastOp'.key, KeyHash(lastOp'.key))
                 rest == Without(before, old)
                 evicted == Len(rest) - Len(after)
             IN /\ IsSuffix(after, rest)
                /\ \A i \in 1..evicted :
                     /\ shard.handles[rest[i]].refs = 1
                     /\ shard'.handles[rest[i]].freed
                     /\ ~InTable(shard', rest[i])
                /\ evicted > 0 =>
                     shard'.usage_ + shard.handles[rest[evicted]].charge
                       > shard.capacity_]_vars

\* Two entries were released, the first was then looked up and released
\* again, and an Insert of a third key has evicted the second, which stood
\* at the head of the lru list, and kept the first.
C15_Witness ==
  /\ lastOp.op = "Insert" /\ lastOp.e = 3
  /\ shard.handles[1].key # shard.handles[2].key
  /\ shard.handles[1].key # lastOp.key /\ shard.handles[2].key # lastOp.key
  /\ shard.handles[2].freed
  /\ ListOf(shard, LruHead) = <<1>>
  /\ InTable(shard, 1)

\* The Release calls of handles to entry e that wait for the mutex
PendingReleases(e) ==
  Cardinality({t \in 1..NumThreads :
                 threads[t].pc = "lock" /\ threads[t].op = "Release"
                   /\ threads[t].e = e})

\* The charges of the entries in the cache
RECURSIVE SumCharges(_, _)
SumCharges(c, n) ==
  IF n = 0 THEN 0
  ELSE SumCharges(c, n - 1)
         + (IF c.handles[n].in_cache THEN c.handles[n].charge ELSE 0)

\* C16: with threads calling Insert, Lookup, Release, Erase and Prune on one
\* shard, a thread is inside the body of a method only while it holds the
\* mutex; whenever the mutex is free the shard is exactly the shard that the
\* calls made so far give when run one at a time in the order of their
\* locks; every call returned what it returns in that order; no reference
\* count update is lost (refs is one for the cache, if the entry is cached,
\* plus one for every handle not yet released); and every entry is on the
\* list its reference count calls for, usage_ being the charge cached.
C16_CallsSerializedByMutex ==
  /\ \A t \in 1..NumThreads :
       /\ threads[t].pc \notin {"idle", "lock"} => mutex = t
       /\ threads[t].pc = "idle" => threads[t].ret = threads[t].expect
  /\ mutex = 0 =>
       /\ shard = serial.c
       /\ shard.usage_ = SumCharges(shard, Len(shard.handles))
       /\ \A e \in Entries :
            LET h == shard.handles[e]
            IN /\ h.refs = (IF h.in_cache THEN 1 ELSE 0) + held[e] + PendingReleases(e)
               /\ OnList(shard, InUseHead, e) <=> (h.refs >= 2 /\ h.in_cache)
               /\ OnList(shard, LruHead, e) <=> (h.refs = 1 /\ h.in_cache)
               /\ h.freed <=> h.refs = 0

\* One thread is inside Release, past the decrement and before the move to
\* the lru list, so that the entry is on the in-use list with one reference,
\* while the other thread waits for the mutex in a Lookup of the same entry.
C16_Witness ==
  \E t, u \in 1..NumThreads :
    /\ threads[t].pc = "rel_fix" /\ mutex = t
    /\ shard.handles[threads[t].e].refs = 1
    /\ OnList(shard, InUseHead, threads[t].e)
    /\ threads[u].pc = "lock" /\ threads[u].op = "Lookup"
    /\ threads[u].key = shard.handles[threads[t].e].key

\* The entries the hash table of shard s holds
Cached(c, s) ==
  {e \in 1..Len(c.shard_[s].handles) : InTable(c.shard_[s], e)}

\* C17: an Insert, Lookup, Release or Erase on a key whose hash selects
\* shard i changes no other shard: the entries, the hash table, both lists
\* and the usage of every other shard are the same after the call, and the
\* entries that left a hash table in an Insert are all of shard i.
C17_OtherShardsUnchanged ==
  [][clients'.last.op \in {"Insert", "Lookup", "Release", "Erase"} =>
       \A i \in {Shard(HashSlice(clients.fn, clients'.last.key))} :
          /\ \A s \in 0..(kNumShards - 1) :
               s # i => sharded'.shard_[s] = sharded.shard_[s]
          /\ \A s \in 0..(kNumShards - 1) :
               Cached(sharded, s) \ Cached(sharded', s) # {} => s = i]_vars

\* An Insert has just evicted an entry of its own shard while an unpinned
\* entry, on the lru list of another shard, stays cached.
C17_Witness ==
  LET i == Shard(HashSlice(clients.fn, clients.last.key))
  IN /\ clients.last.op = "Insert"
     /\ \E d \in 1..Len(sharded.shard_[i].handles) :
          /\ sharded.shard_[i].handles[d].freed
          /\ sharded.shard_[i].handles[d].key # clients.last.key
     /\ \E s \in 0..(kNumShards - 1) :
          /\ s # i
          /\ ListOf(sharded.shard_[s], LruHead) # << >>

\* Whether the Lookup of key k hit, once it was made
Hit(k) == clients.looked[S6Keys + 1 - k]

\* C18 as stated: with 20 keys of charge 10 inserted into a cache of capacity
\* 100 and their handles released, the Lookup of each of the 10 most recently
\* inserted keys hits and that of each of the 10 least recently inserted
\* keys misses.
C18_RecentHalfHits ==
  Len(clients.looked) = S6Keys =>
    \A k \in 1..S6Keys : Hit(k) <=> k > S6Keys - 10

\* C18, amended: every shard has capacity 7, less than one charge, so that an
\* Insert evicts every unpinned entry of its shard: the Lookup of a key hits
\* if and only if no key whose hash selects the same shard was inserted after
\* the key's handle was released.
C18_HitsUnlessShardReused ==
  \A k \in 1..S6Keys :
    k >= S6Keys + 1 - Len(clients.looked) => (Hit(k) <=> k \notin clients.doomed)

\* All the lookups were made: a key among the 10 most recent missed, a key
\* among the 10 least recent hit, and the most recent key hit.
C18_Witness ==
  /\ Len(clients.looked) = S6Keys
  /\ \E k \in 1..S6Keys : k > S6Keys - 10 /\ ~Hit(k)
  /\ \E k \in 1..S6Keys : k <= S6Keys - 10 /\ Hit(k)
  /\ Hit(S6Keys)

\* The charges of the entries other than old that are in the cache in c and
\* no longer in d, among the first n
RECURSIVE ChargeEvicted(_, _, _, _)
ChargeEvicted(c, d, old, n) ==
  IF n = 0 THEN 0
  ELSE ChargeEvicted(c, d, old, n - 1)
         + (IF n # old /\ c.handles[n].in_cache /\ ~d.handles[n].in_cache
            THEN c.handles[n].charge ELSE 0)

\* C37: an Insert of a key that is cached replaces the mapping: the old
\* entry is out of the hash table and has lost the reference of the cache
\* (freed at once if no handle pins it, and otherwise when its last handle
\* is released), a Lookup of the key finds the new entry, and never again
\* an entry that was replaced, and the charge of the old entry is taken off
\* usage.
C37_InsertReplaces ==
  /\ [][\A old \in Entries :
          (/\ Len(shard'.handles) = Len(shard.handles) + 1
           /\ shard.capacity_ > 0
           /\ TableLookup(shard, lastOp'.key, KeyHash(lastOp'.key)) = old)
          => /\ ~InTable(shard', old)
             /\ ~shard'.handles[old].in_cache
             /\ shard'.handles[old].refs = shard.handles[old].refs - 1
             /\ shard'.handles[old].freed <=> held[old] = 0
             /\ TableLookup(shard', lastOp'.key, KeyHash(lastOp'.key)) = lastOp'.e
             /\ shard'.usage_ = shard.usage_ + shard'.handles[lastOp'.e].charge
                                  - shard.handles[old].charge
                                  - ChargeEvicted(shard, shard', old, Len(shard.handles))]_vars
  /\ [](\A e \in Entries :
          /\ ~shard.handles[e].in_cache =>
                /\ shard.handles[e].refs = held[e]
                /\ shard.handles[e].freed <=> held[e] = 0
          /\ \A d \in Entries :
                (d > e /\ shard.handles[d].key = shard.handles[e].key
                   /\ shard.handles[d].in_cache)
                  => /\ ~InTable(shard, e)
                     /\ TableLookup(shard, shard.handles[e].key,
                                     KeyHash(shard.handles[e].key)) = d)

\* The second entry of key 1 has replaced the first, which a client still
\* holds, and the Insert went on to evict the entry of key 2 from the lru
\* list; then a Lookup of key 1 has found the new entry.
C37_Witness ==
  /\ lastOp = [op |-> "Lookup", key |-> 1, e |-> 3]
  /\ shard.handles[1].key = 1 /\ held[1] > 0 /\ ~shard.handles[1].in_cache
  /\ shard.handles[2].key = 2 /\ shard.handles[2].freed
  /\ shard.handles[3].key = 1 /\ shard.handles[3].in_cache

\* C40: after any calls made on a shard, usage is the sum of the charges of
\* exactly the entries that are in the cache, which are those with in_cache
\* set and those the hash table holds; an entry that was erased, replaced or
\* evicted and is still held by a client, and an entry inserted with
\* capacity 0, count neither in usage nor in TotalCharge.
C40_UsageIsChargeCached ==
  /\ shard.usage_ = SumCharges(shard, Len(shard.handles))
  /\ TotalCharge(shard) = shard.usage_
  /\ \A e \in Entries : shard.handles[e].in_cache <=> InTable(shard, e)
  /\ shard.capacity_ = 0 =>
       /\ shard.usage_ = 0
       /\ \A e \in Entries : ~shard.handles[e].in_cache

\* A client holds an entry that is out of the cache and alive, another entry
\* is cached, and TotalCharge is the charge of the cached one alone
C40_Witness ==
  \E e, d \in Entries :
    /\ held[e] > 0 /\ ~shard.handles[e].in_cache /\ ~shard.handles[e].freed
    /\ shard.handles[d].in_cache
    /\ TotalCharge(shard) = shard.handles[d].charge
    /\ shard.handles[e].charge = MaxCharge

(***************************************************************************)
(* util/coding.cc: byte strings are sequences of values in 0..255          *)
(***************************************************************************)

SubStr(b, from, n) == [i \in 1..n |-> b[from + i - 1]]

\* 128 to the power n
RECURSIVE Pow128(_)
Pow128(n) == IF n = 0 THEN 1 ELSE 128 * Pow128(n - 1)

\* The n low bytes of value, least significant first
RECURSIVE EncodeFixed(_, _)
EncodeFixed(value, n) ==
  IF n = 0 THEN << >> ELSE <<value % 256>> \o EncodeFixed(value \div 256, n - 1)

EncodeFixed32(value) == EncodeFixed(value, 4)

EncodeFixed64(value) == EncodeFixed(value, 8)

\* The little-endian load of n bytes at offset pos. The integers of the
\* checker have 31 bits, so every number the model encodes stays below 2^31
\* and the high bytes of a fixed64 are always zero.
RECURSIVE DecodeFixed(_, _, _)
DecodeFixed(b, pos, n) ==
  IF n = 0 THEN 0 ELSE b[pos + 1] + 256 * DecodeFixed(b, pos + 1, n - 1)

DecodeFixed32(b, pos) == DecodeFixed(b, pos, 4)

DecodeFixed64(b, pos) == DecodeFixed(b, pos, 8)

EncodeVarint32(v) ==
  IF v < 128 THEN <<v>>
  ELSE IF v < 16384 THEN <<(v % 128) + 128, v \div 128>>
  ELSE IF v < 2097152 THEN
    <<(v % 128) + 128, ((v \div 128) % 128) + 128, v \div 16384>>
  ELSE IF v < 268435456 THEN
    <<(v % 128) + 128, ((v \div 128) % 128) + 128,
      ((v \div 16384) % 128) + 128, v \div 2097152>>
  ELSE
    <<(v % 128) + 128, ((v \div 128) % 128) + 128,
      ((v \div 16384) % 128) + 128, ((v \div 2097152) % 128) + 128,
      v \div 268435456>>

VarintLength(v) == IF v < 128 THEN 1 ELSE IF v < 16384 THEN 2
                   ELSE IF v < 2097152 THEN 3 ELSE IF v < 268435456 THEN 4 ELSE 5

\* Decodes a varint32 from b[pos+1 .. limit]; p is the offset after it, or
\* ok is FALSE where the code returns NULL.
RECURSIVE GetVarint32Loop(_, _, _, _, _)
GetVarint32Loop(b, p, limit, shift, result) ==
  IF shift <= 28 /\ p < limit
  THEN LET byte == b[p + 1]
       IN IF byte >= 128
          THEN GetVarint32Loop(b, p + 1, limit, shift + 7,
                               result + (byte % 128) * Pow128(shift \div 7))
          ELSE [ok |-> TRUE, p |-> p + 1,
                value |-> result + byte * Pow128(shift \div 7)]
  ELSE [ok |-> FALSE, p |-> p, value |-> 0]

GetVarint32Ptr(b, pos, limit) == GetVarint32Loop(b, pos, limit, 0, 0)

(***************************************************************************)
(* include/leveldb/slice.h, util/comparator.cc, db/dbformat.{h,cc}         *)
(***************************************************************************)

kTypeDeletion == 0
kTypeValue == 1
kValueTypeForSeek == kTypeValue

\* memcmp over the first n bytes: decided by the first byte that differs
MemCmp(a, b, n) ==
  LET differ == {i \in 1..n : a[i] # b[i]}
  IN IF differ = {} THEN 0
     ELSE LET i == CHOOSE d \in differ : \A e \in differ : d <= e
          IN IF a[i] < b[i] THEN -1 ELSE 1

\* Slice::compare: memcmp over the common prefix, then the shorter is less
SliceCompare(a, b) ==
  LET r == MemCmp(a, b, Min(Len(a), Len(b)))
  IN IF r # 0 THEN r
     ELSE IF Len(a) < Len(b) THEN -1
     ELSE IF Len(a) > Len(b) THEN 1
     ELSE 0

\* PackSequenceAndType leaving the type out of the tag
PackSequenceOnly(seq, t) == seq * 256

\* (seq << 8) | t
PackSequenceAndType(seq, t) == seq * 256 + t

ExtractUserKey(ikey) == SubStr(ikey, 1, Len(ikey) - 8)

\* DecodeFixed64 for a comparison: a tag of a sequence number near 2^56 is
\* past the integers of the checker, so the uint64_t is held as its eight
\* digits to the base 256, the most significant first, and two of them are
\* compared as numbers by MemCmp.
DecodeFixed64Digits(b, pos) == [i \in 1..8 |-> b[pos + 9 - i]]

\* Descending on the tag makes the ordering put newer entries first.
InternalCompareAscending(akey, bkey) ==
  LET r == SliceCompare(ExtractUserKey(akey), ExtractUserKey(bkey))
      anum == DecodeFixed64Digits(akey, Len(akey) - 8)
      bnum == DecodeFixed64Digits(bkey, Len(bkey) - 8)
  IN IF r # 0 THEN r
     ELSE IF MemCmp(anum, bnum, 8) > 0 THEN 1
     ELSE IF MemCmp(anum, bnum, 8) < 0 THEN -1
     ELSE 0

\* InternalKeyComparator::Compare: user key ascending, then tag descending
InternalCompare(akey, bkey) ==
  LET r == SliceCompare(ExtractUserKey(akey), ExtractUserKey(bkey))
      anum == DecodeFixed64Digits(akey, Len(akey) - 8)
      bnum == DecodeFixed64Digits(bkey, Len(bkey) - 8)
  IN IF r # 0 THEN r
     ELSE IF MemCmp(anum, bnum, 8) > 0 THEN -1
     ELSE IF MemCmp(anum, bnum, 8) < 0 THEN 1
     ELSE 0

\* LookupKey::LookupKey: klength varint32, user key, tag for seeking; the
\* pointers start_, kstart_ and end_ are offsets into the buffer.
LookupKey(user_key, s) ==
  LET klength == EncodeVarint32(Len(user_key) + 8)
      buf == klength \o user_key
               \o EncodeFixed64(PackSequenceAndType(s, kValueTypeForSeek))
  IN [buf |-> buf, start_ |-> 0, kstart_ |-> Len(klength), end_ |-> Len(buf)]

memtable_key(k) == SubStr(k.buf, k.start_ + 1, k.end_ - k.start_)

user_key(k) == SubStr(k.buf, k.kstart_ + 1, k.end_ - k.kstart_ - 8)

(***************************************************************************)
(* Internal keys under InternalKeyComparator: three keys are encoded from  *)
(* their parts and compared with each other.                               *)
(***************************************************************************)

NumIKeys == 3           \* the keys compared with each other
OrderUserKeys == {<< >>, <<97>>, <<97, 98>>, <<98>>}
OrderSequences == {0, 1, 300}
ValueTypes == {kTypeDeletion, kTypeValue}

\* ParsedInternalKey
ParsedInternalKey(u, seq, t) == [user_key |-> u, sequence |-> seq, type |-> t]

\* AppendInternalKey(result, key)
AppendInternalKey(result, key) ==
  result \o key.user_key
         \o EncodeFixed64(PackSequenceAndType(key.sequence, key.type))

\* InternalKey::InternalKey(user_key, s, t)
InternalKey(u, seq, t) ==
  [parsed |-> ParsedInternalKey(u, seq, t),
   rep_ |-> AppendInternalKey(<< >>, ParsedInternalKey(u, seq, t))]

AllInternalKeys ==
  {InternalKey(u, seq, t) : u \in OrderUserKeys, seq \in OrderSequences,
                            t \in ValueTypes}

\* No result of Compare is at hand
NotCompared == << >>

InitOrder ==
  /\ ikeys \in [1..NumIKeys -> AllInternalKeys]
  /\ order = NotCompared
  /\ OnlyOrder

\* Key i is built anew from a user key, a sequence number and a type
NewInternalKey(i, u, seq, t) ==
  /\ ikeys' = [ikeys EXCEPT ![i] = InternalKey(u, seq, t)]
  /\ ikeys' # ikeys
  /\ order' = NotCompared
  /\ UNCHANGED notOrder

\* InternalKeyComparator::Compare on every pair of the keys
CompareKeys ==
  /\ order = NotCompared
  /\ order' = [i \in 1..NumIKeys |-> [j \in 1..NumIKeys |->
                 InternalCompare(ikeys[i].rep_, ikeys[j].rep_)]]
  /\ UNCHANGED <<ikeys, notOrder>>

NextOrder ==
  \/ \E i \in 1..NumIKeys, u \in OrderUserKeys, seq \in OrderSequences,
         t \in ValueTypes : NewInternalKey(i, u, seq, t)
  \/ CompareKeys

SpecOrder == InitOrder /\ [][NextOrder]_vars

(* util/comparator.cc and db/dbformat.cc: FindShortestSeparator and        *)
(* FindShortSuccessor, called on two internal keys, start and limit.       *)

\* The while loop of FindShortestSeparator: the length of the common prefix
RECURSIVE SharedBytes(_, _, _, _)
SharedBytes(start, limit, diff_index, min_length) ==
  IF diff_index < min_length /\ start[diff_index + 1] = limit[diff_index + 1]
  THEN SharedBytes(start, limit, diff_index + 1, min_length)
  ELSE diff_index

\* BytewiseComparatorImpl::FindShortestSeparator: *start after the call
FindShortestSeparator(start, limit) ==
  LET min_length == Min(Len(start), Len(limit))
      diff_index == SharedBytes(start, limit, 0, min_length)
  IN IF diff_index >= min_length THEN start
     ELSE LET diff_byte == start[diff_index + 1]
          IN IF diff_byte < 255 /\ diff_byte + 1 < limit[diff_index + 1]
             THEN Append(SubStr(start, 1, diff_index), diff_byte + 1)
             ELSE start

\* BytewiseComparatorImpl::FindShortSuccessor: *key after the call
FindShortSuccessor(key) ==
  LET incrementable == {i \in 1..Len(key) : key[i] # 255}
  IN IF incrementable = {} THEN key
     ELSE LET i == CHOOSE j \in incrementable : \A k \in incrementable : j <= k
          IN Append(SubStr(key, 1, i - 1), key[i] + 1)

\* PutFixed64 of PackSequenceAndType(kMaxSequenceNumber, kValueTypeForSeek):
\* the sequence number 2^56 - 1 is seven bytes of 0xff above the type
MaxSequenceTag == <<kValueTypeForSeek>> \o [i \in 1..7 |-> 255]

\* FindShortestSeparator putting the tag on whatever the user comparator
\* left different from the user key
InternalFindShortestSeparatorAnyChange(start, limit) ==
  LET user_start == ExtractUserKey(start)
      tmp == FindShortestSeparator(user_start, ExtractUserKey(limit))
  IN IF tmp # user_start /\ SliceCompare(user_start, tmp) < 0
     THEN tmp \o MaxSequenceTag
     ELSE start

\* InternalKeyComparator::FindShortestSeparator: *start after the call
InternalFindShortestSeparator(start, limit) ==
  LET user_start == ExtractUserKey(start)
      tmp == FindShortestSeparator(user_start, ExtractUserKey(limit))
  IN IF Len(tmp) < Len(user_start) /\ SliceCompare(user_start, tmp) < 0
     THEN tmp \o MaxSequenceTag
     ELSE start

\* InternalKeyComparator::FindShortSuccessor: *key after the call
InternalFindShortSuccessor(key) ==
  LET user_key_ == ExtractUserKey(key)
      tmp == FindShortSuccessor(user_key_)
  IN IF Len(tmp) < Len(user_key_) /\ SliceCompare(user_key_, tmp) < 0
     THEN tmp \o MaxSequenceTag
     ELSE key

SeparatorUserKeys ==
  {<< >>, <<97>>, <<97, 97>>, <<97, 99>>, <<97, 99, 100>>, <<98>>, <<99>>,
   <<97, 255>>, <<255>>, <<255, 255>>}

\* The internal keys start (ikeys[1]) and limit (ikeys[2])
InitSeparator ==
  /\ ikeys \in [1..2 -> {InternalKey(u, seq, t) : u \in SeparatorUserKeys,
                                                  seq \in OrderSequences,
                                                  t \in ValueTypes}]
  /\ order = NotCompared
  /\ OnlyOrder

\* comparator->FindShortestSeparator(&start, limit) on a copy of start
CallFindShortestSeparator ==
  /\ order' = [op |-> "FindShortestSeparator", i |-> 1,
               out |-> InternalFindShortestSeparator(ikeys[1].rep_, ikeys[2].rep_)]
  /\ UNCHANGED <<ikeys, notOrder>>

\* comparator->FindShortSuccessor(&key) on a copy of either key
CallFindShortSuccessor(i) ==
  /\ order' = [op |-> "FindShortSuccessor", i |-> i,
               out |-> InternalFindShortSuccessor(ikeys[i].rep_)]
  /\ UNCHANGED <<ikeys, notOrder>>

NextSeparator ==
  \/ CallFindShortestSeparator
  \/ \E i \in 1..2 : CallFindShortSuccessor(i)

SpecSeparator == InitSeparator /\ [][NextSeparator]_vars

(* db/snapshot.h: SnapshotList. A node is a number; node 0 is the dummy     *)
(* head list_, and New gives the nodes 1, 2, ... in the order it makes     *)
(* them. A deleted node is no longer in the domain of the list.            *)

MaxSnapshots == 4
SnapshotNumbers == {5, 9, 12}
list_ == 0

\* SnapshotList(): list_.prev_ = &list_; list_.next_ = &list_
NewSnapshotList == (list_ :> [prev_ |-> list_, next_ |-> list_, number_ |-> 0])

empty(l) == l[list_].next_ = list_
oldest(l) == l[list_].next_
newest(l) == l[list_].prev_

\* New linking the node behind the head, at the end of the oldest
SnapshotNewAtHead(l, s, seq) ==
  LET l1 == (s :> [number_ |-> seq, prev_ |-> list_, next_ |-> l[list_].next_]) @@ l
      l2 == [l1 EXCEPT ![l1[s].prev_].next_ = s]
  IN [l2 EXCEPT ![l2[s].next_].prev_ = s]

\* SnapshotList::New: the list once s, a new node, is linked
SnapshotNew(l, s, seq) ==
  LET l1 == (s :> [number_ |-> seq, next_ |-> list_, prev_ |-> l[list_].prev_]) @@ l
      l2 == [l1 EXCEPT ![l1[s].prev_].next_ = s]
  IN [l2 EXCEPT ![l2[s].next_].prev_ = s]

\* SnapshotList::Delete: the list once s is unlinked and deleted
SnapshotDelete(l, s) ==
  LET l1 == [l EXCEPT ![l[s].prev_].next_ = l[s].next_]
      l2 == [l1 EXCEPT ![l1[s].next_].prev_ = l1[s].prev_]
  IN [n \in DOMAIN l2 \ {s} |-> l2[n]]

InitSnap ==
  /\ snapshots = [list |-> NewSnapshotList, made |-> 0]
  /\ created = << >>
  /\ OnlySnap

\* const SnapshotImpl* s = snapshots_.New(seq)
SnapNew(seq) ==
  /\ snapshots.made < MaxSnapshots
  /\ snapshots' = [list |-> SnapshotNew(snapshots.list, snapshots.made + 1, seq),
                   made |-> snapshots.made + 1]
  /\ created' = Append(created, snapshots.made + 1)
  /\ UNCHANGED notSnap

\* snapshots_.Delete(s), s a snapshot New returned and not deleted since
SnapDelete(s) ==
  /\ s \in DOMAIN snapshots.list
  /\ snapshots' = [snapshots EXCEPT !.list = SnapshotDelete(snapshots.list, s)]
  /\ created' = SelectSeq(created, LAMBDA n : n # s)
  /\ UNCHANGED notSnap

NextSnap ==
  \/ \E seq \in SnapshotNumbers : SnapNew(seq)
  \/ \E s \in 1..MaxSnapshots : SnapDelete(s)

SpecSnap == InitSnap /\ [][NextSnap]_vars

(* Claims about the internal key order *)

\* a before b in the order of bytes: a is a proper prefix of b, or the first
\* byte in which they differ is the smaller in a
BytewiseLess(a, b) ==
  \E n \in 0..Min(Len(a), Len(b)) :
    /\ \A i \in 1..n : a[i] = b[i]
    /\ \/ n = Len(a) /\ n < Len(b)
       \/ n < Len(a) /\ n < Len(b) /\ a[n + 1] < b[n + 1]

\* a before b: user key ascending, then sequence descending, then type
\* descending
InternalLess(a, b) ==
  \/ BytewiseLess(a.user_key, b.user_key)
  \/ /\ a.user_key = b.user_key
     /\ \/ a.sequence > b.sequence
        \/ a.sequence = b.sequence /\ a.type > b.type

\* C12: Compare on encoded internal keys is negative exactly when the first
\* key has the lesser user key, or the same user key and the greater
\* sequence, or the same user key and sequence and the greater type; it is
\* zero exactly when the three parts are equal; and it is a total order:
\* Compare(b, a) has the opposite sign of Compare(a, b), and a before b
\* before c gives a before c.
C12_InternalKeyOrder ==
  order # NotCompared =>
    \A i, j \in 1..NumIKeys :
      /\ order[i][j] < 0 <=> InternalLess(ikeys[i].parsed, ikeys[j].parsed)
      /\ order[i][j] = 0 <=> ikeys[i].parsed = ikeys[j].parsed
      /\ order[i][j] > 0 <=> order[j][i] < 0
      /\ \A k \in 1..NumIKeys :
           (order[i][j] < 0 /\ order[j][k] < 0) => order[i][k] < 0

\* Three keys compared: two of one user key that differ in the type alone,
\* and one of a user key that extends it, with a lesser sequence number.
C12_Witness ==
  /\ order # NotCompared
  /\ ikeys[1].parsed = ParsedInternalKey(<<97>>, 300, kTypeValue)
  /\ ikeys[2].parsed = ParsedInternalKey(<<97>>, 300, kTypeDeletion)
  /\ ikeys[3].parsed = ParsedInternalKey(<<97, 98>>, 1, kTypeValue)
  /\ order[1][2] < 0 /\ order[2][3] < 0 /\ order[1][3] < 0

\* The nodes met from the head along next_, up to n of them
RECURSIVE SnapshotsFromOldest(_, _, _)
SnapshotsFromOldest(l, s, n) ==
  IF s = list_ \/ n = 0 \/ s \notin DOMAIN l THEN << >>
  ELSE <<s>> \o SnapshotsFromOldest(l, l[s].next_, n - 1)

\* C26: after any sequence of New and Delete the list is a consistent
\* circular doubly-linked list (n.next.prev = n and n.prev.next = n for every
\* node, the head included) that holds exactly the snapshots made and not yet
\* deleted, in the order they were made; oldest() is the earliest made of
\* them and newest() the latest.
C26_SnapshotListConsistent ==
  LET l == snapshots.list
  IN /\ \A n \in DOMAIN l :
          /\ l[n].next_ \in DOMAIN l /\ l[n].prev_ \in DOMAIN l
          /\ l[l[n].next_].prev_ = n
          /\ l[l[n].prev_].next_ = n
     /\ DOMAIN l = {list_} \cup {created[i] : i \in 1..Len(created)}
     /\ SnapshotsFromOldest(l, l[list_].next_, MaxSnapshots + 2) = created
     /\ empty(l) <=> created = << >>
     /\ created # << >> =>
          /\ oldest(l) = created[1]
          /\ newest(l) = created[Len(created)]

\* Four snapshots were made and the second and the fourth deleted: the first
\* is the oldest and the third the newest.
C26_Witness ==
  /\ snapshots.made = 4
  /\ created = <<1, 3>>
  /\ oldest(snapshots.list) = 1 /\ newest(snapshots.list) = 3
  /\ snapshots.list[3].next_ = list_

\* Encoded internal key a before b: the user key ascending in the order of
\* bytes, then the tag, read as a number, descending
EncodedLess(a, b) ==
  LET ua == SubStr(a, 1, Len(a) - 8)
      ub == SubStr(b, 1, Len(b) - 8)
      ta == [i \in 1..8 |-> a[Len(a) + 1 - i]]
      tb == [i \in 1..8 |-> b[Len(b) + 1 - i]]
  IN BytewiseLess(ua, ub) \/ (ua = ub /\ BytewiseLess(tb, ta))

\* C24: for internal keys start < limit, FindShortestSeparator leaves start'
\* with start <= start' < limit in the order of internal keys;
\* FindShortSuccessor leaves key' with key <= key'; and where the user
\* comparator did not produce a physically shorter and logically larger user
\* key the internal key is left unchanged.
C24_SeparatorAndSuccessor ==
  order # NotCompared =>
    LET in == ikeys[order.i].rep_
        out == order.out
        user_in == ikeys[order.i].parsed.user_key
        user_out == IF order.op = "FindShortestSeparator"
                    THEN FindShortestSeparator(user_in, ikeys[2].parsed.user_key)
                    ELSE FindShortSuccessor(user_in)
    IN /\ (order.op = "FindShortestSeparator" /\ EncodedLess(in, ikeys[2].rep_)) =>
            /\ in = out \/ EncodedLess(in, out)
            /\ EncodedLess(out, ikeys[2].rep_)
       /\ order.op = "FindShortSuccessor" => (in = out \/ EncodedLess(in, out))
       /\ ~(Len(user_out) < Len(user_in) /\ BytewiseLess(user_in, user_out))
            => out = in

\* FindShortestSeparator was called with start = "acd" and limit = "c", both
\* of sequence 300, and left "b" with the greatest sequence number, which is
\* after start and before limit.
C24_Witness ==
  /\ order # NotCompared /\ order.op = "FindShortestSeparator"
  /\ ikeys[1].parsed = ParsedInternalKey(<<97, 99, 100>>, 300, kTypeValue)
  /\ ikeys[2].parsed = ParsedInternalKey(<<99>>, 300, kTypeValue)
  /\ order.out = <<98>> \o MaxSequenceTag
  /\ order.out # ikeys[1].rep_

(***************************************************************************)
(* db/skiplist.h: nodes are numbered in allocation order; a pointer is a   *)
(* node number, NULL, HeadNode, or Uninit for a slot never written.        *)
(***************************************************************************)

kMaxHeight == 12
MaxHeight == 2          \* heights RandomHeight may return in the model

HeadNode == -1

NewSkipList(cmp) ==
  [compare_    |-> cmp,
   max_height_ |-> 1,
   head_       |-> [i \in 1..kMaxHeight |-> NULL],
   nodes       |-> << >>]

\* Node::Next(n) and Node::NoBarrier_Next(n); levels n count from 0
NodeNext(l, x, n) == IF x = HeadNode THEN l.head_[n + 1] ELSE l.nodes[x].next[n + 1]

\* Node::SetNext(n, v) and Node::NoBarrier_SetNext(n, v)
SetNext(l, x, n, v) ==
  IF x = HeadNode
  THEN [l EXCEPT !.head_[n + 1] = v]
  ELSE [l EXCEPT !.nodes[x].next[n + 1] = v]

\* db/memtable.cc GetLengthPrefixedSlice(const char*)
GetLengthPrefixedSlice(b, pos) ==
  LET r == GetVarint32Ptr(b, pos, pos + 5)
  IN SubStr(b, r.p + 1, r.value)

\* MemTable::KeyComparator::operator()
KeyComparator(a, b) ==
  InternalCompare(GetLengthPrefixedSlice(a, 0), GetLengthPrefixedSlice(b, 0))

\* The comparator of a list of plain integers
IntCompare(a, b) == IF a < b THEN -1 ELSE IF a > b THEN 1 ELSE 0

\* compare_(a, b): the comparator the list was constructed with
Compare(l, a, b) ==
  IF l.compare_ = "KeyComparator" THEN KeyComparator(a, b) ELSE IntCompare(a, b)

Equal(l, a, b) == Compare(l, a, b) = 0

\* KeyIsAfterNode treating a node with the key itself as before the key
KeyIsAfterNodeOrEqual(l, key, n) == n # NULL /\ Compare(l, l.nodes[n].key, key) <= 0

\* return (n != NULL) && (compare_(n->key, key) < 0)
KeyIsAfterNode(l, key, n) == n # NULL /\ Compare(l, l.nodes[n].key, key) < 0

\* FindGreaterOrEqual: the loop from node x at the given level; prev is the
\* caller's array, written at each level the search leaves.
RECURSIVE FindGreaterOrEqualLoop(_, _, _, _, _)
FindGreaterOrEqualLoop(l, key, x, level, prev) ==
  LET next == NodeNext(l, x, level)
  IN IF KeyIsAfterNode(l, key, next)
     THEN FindGreaterOrEqualLoop(l, key, next, level, prev)
     ELSE LET p == [prev EXCEPT ![level + 1] = x]
          IN IF level = 0
             THEN [node |-> next, prev |-> p]
             ELSE FindGreaterOrEqualLoop(l, key, x, level - 1, p)

FindGreaterOrEqual(l, key) ==
  FindGreaterOrEqualLoop(l, key, HeadNode, l.max_height_ - 1,
                         [i \in 1..kMaxHeight |-> Uninit])

\* The linking loop of Insert for levels i .. height-1 of the new node x
RECURSIVE InsertLink(_, _, _, _, _)
InsertLink(l, x, prev, i, height) ==
  IF i >= height THEN l
  ELSE LET l1 == SetNext(l, x, i, NodeNext(l, prev[i + 1], i))
           l2 == SetNext(l1, prev[i + 1], i, x)
       IN InsertLink(l2, x, prev, i + 1, height)

\* SkipList::Insert with the height RandomHeight returned
SkipInsert(l, key, height) ==
  LET r == FindGreaterOrEqual(l, key)
      prev == IF height > l.max_height_
              THEN [i \in 1..kMaxHeight |->
                      IF i > l.max_height_ /\ i <= height THEN HeadNode
                      ELSE r.prev[i]]
              ELSE r.prev
      l1 == IF height > l.max_height_ THEN [l EXCEPT !.max_height_ = height]
            ELSE l
      x == Len(l.nodes) + 1
      l2 == [l1 EXCEPT !.nodes = Append(@,
                [key |-> key, next |-> [i \in 1..height |-> Uninit]])]
  IN InsertLink(l2, x, prev, 0, height)

SkipContains(l, key) ==
  LET x == FindGreaterOrEqual(l, key).node
  IN x # NULL /\ Equal(l, key, l.nodes[x].key)

\* Iterator::Seek followed by Iterator::Valid/key: the node, or NULL
IteratorSeek(l, target) == FindGreaterOrEqual(l, target).node

\* Iterator::SeekToFirst: node_ = list_->head_->Next(0)
IteratorSeekToFirst(l) == NodeNext(l, HeadNode, 0)

\* Iterator::Next: node_ = node_->Next(0)
IteratorNext(l, node_) == NodeNext(l, node_, 0)

\* The keys an iterator at node_ yields with key() and Next() while Valid(),
\* for at most fuel calls of Next
RECURSIVE IterateKeys(_, _, _)
IterateKeys(l, node_, fuel) ==
  IF node_ = NULL \/ fuel = 0 THEN << >>
  ELSE <<l.nodes[node_].key>> \o IterateKeys(l, IteratorNext(l, node_), fuel - 1)

(***************************************************************************)
(* db/memtable.cc                                                          *)
(***************************************************************************)

MaxSeq == 3             \* sequence numbers 1..MaxSeq are given to Add

UserKeys == {<<97>>, <<97, 98>>}      \* "a" and "ab"

\* The buffer MemTable::Add builds and inserts
EncodeEntry(s, type, key, value) ==
  EncodeVarint32(Len(key) + 8) \o key \o EncodeFixed64(s * 256 + type)
    \o EncodeVarint32(Len(value)) \o value

MemTableAdd(l, s, type, key, value, height) ==
  SkipInsert(l, EncodeEntry(s, type, key, value), height)

\* A MemTable::Get that takes a Value of length 0 for a deletion
MemTableGetEmptyIsDeleted(l, key) ==
  LET x == IteratorSeek(l, memtable_key(key))
      none == [ret |-> FALSE, hasValue |-> FALSE, value |-> << >>, notFound |-> FALSE]
  IN IF x # NULL
     THEN LET entry == l.nodes[x].key
              k == GetVarint32Ptr(entry, 0, 5)
          IN IF SliceCompare(SubStr(entry, k.p + 1, k.value - 8), user_key(key)) = 0
             THEN LET tag == DecodeFixed64(entry, k.p + k.value - 8)
                      v == GetLengthPrefixedSlice(entry, k.p + k.value)
                  IN IF tag % 256 = kTypeValue /\ v # << >>
                     THEN [none EXCEPT !.ret = TRUE, !.hasValue = TRUE, !.value = v]
                     ELSE [none EXCEPT !.ret = TRUE, !.notFound = TRUE]
             ELSE none
     ELSE none

\* MemTable::Get: ret is the returned bool, value the string assigned to
\* *value (when hasValue), notFound whether *s was set to NotFound.
MemTableGet(l, key) ==
  LET x == IteratorSeek(l, memtable_key(key))
      none == [ret |-> FALSE, hasValue |-> FALSE, value |-> << >>, notFound |-> FALSE]
  IN IF x # NULL
     THEN LET entry == l.nodes[x].key
              k == GetVarint32Ptr(entry, 0, 5)
          IN IF SliceCompare(SubStr(entry, k.p + 1, k.value - 8), user_key(key)) = 0
             THEN LET tag == DecodeFixed64(entry, k.p + k.value - 8)
                  IN IF tag % 256 = kTypeValue
                     THEN [none EXCEPT !.ret = TRUE, !.hasValue = TRUE,
                             !.value = GetLengthPrefixedSlice(entry, k.p + k.value)]
                     ELSE IF tag % 256 = kTypeDeletion
                     THEN [none EXCEPT !.ret = TRUE, !.notFound = TRUE]
                     ELSE none
             ELSE none
     ELSE none

\* No Get has been made since the last Add
NoGet ==
  [key |-> << >>, snapshot |-> 0, called |-> FALSE,
   r |-> [ret |-> FALSE, hasValue |-> FALSE, value |-> << >>, notFound |-> FALSE]]

InitMem ==
  /\ mem = NewSkipList("KeyComparator")
  /\ added = {}
  /\ memGet = NoGet
  /\ OnlyMem

\* MemTable::Add with a sequence number no earlier Add used
Add(s, type, key, value, height) ==
  /\ \A a \in added : a.s # s
  /\ mem' = MemTableAdd(mem, s, type, key, value, height)
  /\ added' = added \cup {[s |-> s, type |-> type, key |-> key, value |-> value]}
  /\ memGet' = NoGet
  /\ UNCHANGED notMem

\* MemTable::Get(LookupKey(key, snapshot), &value, &s)
Get(key, snapshot) ==
  /\ memGet' = [key |-> key, snapshot |-> snapshot, called |-> TRUE,
                r |-> MemTableGet(mem, LookupKey(key, snapshot))]
  /\ UNCHANGED <<mem, added, notMem>>

NextMem ==
  \/ \E s \in 1..MaxSeq, key \in UserKeys, h \in 1..MaxHeight :
       \/ Add(s, kTypeValue, key, <<48 + s>>, h)
       \/ Add(s, kTypeDeletion, key, << >>, h)
  \/ \E key \in UserKeys, snapshot \in 0..MaxSeq : Get(key, snapshot)

SpecMem == InitMem /\ [][NextMem]_vars

(* The memtable is given values of length 0 as well.                       *)

MemValues == {<< >>, <<118>>}

NextMemValues ==
  \/ \E s \in 1..MaxSeq, key \in UserKeys, value \in MemValues, h \in 1..MaxHeight :
       \/ Add(s, kTypeValue, key, value, h)
       \/ Add(s, kTypeDeletion, key, << >>, h)
  \/ \E key \in UserKeys, snapshot \in 0..MaxSeq : Get(key, snapshot)

SpecMemValues == InitMem /\ [][NextMemValues]_vars

(* Claims about the memtable *)

\* The Add calls for the user key of the last Get at or below its snapshot
Visible == {a \in added : a.key = memGet.key /\ a.s <= memGet.snapshot}

\* C2: after any Add calls with distinct sequence numbers, Get for user key k
\* at snapshot s examines the entry for k with the greatest sequence number
\* <= s: for a Value it returns true with that entry's value, for a Deletion
\* true with NotFound, and with no such entry it returns false.
C2_GetNewestAtSnapshot ==
  memGet.called =>
    IF Visible = {}
    THEN ~memGet.r.ret /\ ~memGet.r.hasValue /\ ~memGet.r.notFound
    ELSE LET a == CHOOSE v \in Visible : \A w \in Visible : w.s <= v.s
         IN /\ memGet.r.ret
            /\ a.type = kTypeValue =>
                 (memGet.r.hasValue /\ memGet.r.value = a.value /\ ~memGet.r.notFound)
            /\ a.type = kTypeDeletion =>
                 (memGet.r.notFound /\ ~memGet.r.hasValue)

\* C38: Get has three outcomes.  When the newest entry of the user key at
\* or below the snapshot is a Value, it returns true and assigns that value,
\* a value of length 0 as the empty value, and leaves the status alone; when
\* that entry is a Deletion it returns true with the status NotFound and
\* leaves the value alone; when there is no entry of the user key at or
\* below the snapshot it returns false and assigns neither.
C38_GetThreeOutcomes ==
  memGet.called =>
    \A top \in {IF Visible = {} THEN [s |-> 0, type |-> kTypeDeletion, value |-> << >>]
                   ELSE CHOOSE v \in Visible : \A w \in Visible : w.s <= v.s} :
      /\ (Visible # {} /\ top.type = kTypeValue)
           <=> (memGet.r.ret /\ memGet.r.hasValue /\ ~memGet.r.notFound)
      /\ (Visible # {} /\ top.type = kTypeDeletion)
           <=> (memGet.r.ret /\ ~memGet.r.hasValue /\ memGet.r.notFound)
      /\ Visible = {} <=> (~memGet.r.ret /\ ~memGet.r.hasValue /\ ~memGet.r.notFound)
      /\ memGet.r.hasValue => memGet.r.value = top.value

\* A Get has returned the value of length 0 of an entry that lies above a
\* Deletion of the same key and below a newer entry the snapshot hides
C38_Witness ==
  /\ memGet.called
  /\ memGet.r.ret /\ memGet.r.hasValue /\ memGet.r.value = << >>
  /\ \E a \in Visible : a.type = kTypeDeletion
  /\ \E b \in added : b.key = memGet.key /\ b.s > memGet.snapshot

\* A Get below the newest entry of its key: a newer entry of the key, an
\* older visible one, and an entry of another key are all in the table.
C2_Witness ==
  /\ memGet.called
  /\ \E a \in Visible, b, c \in added :
       /\ b.key = memGet.key /\ b.s > memGet.snapshot
       /\ c.key # memGet.key
  /\ memGet.r.ret

(***************************************************************************)
(* The log file.  A file is a sequence of runs of bytes: the n bytes from  *)
(* byte off of a record header ("hdr"), of the payload of record rec       *)
(* ("data"), or of zero padding ("zero"), so that block-sized payloads     *)
(* stay small values.  A header carries its checksum, length and type      *)
(* fields; rec names the logical record it was written for.  A payload     *)
(* byte damaged after it was written is a run of its own ("flip").         *)
(***************************************************************************)

kZeroType == 0
kFullType == 1
kFirstType == 2
kMiddleType == 3
kLastType == 4
kMaxRecordType == kLastType
kBlockSize == 32768
kHeaderSize == 4 + 2 + 1
kEof == kMaxRecordType + 1
kBadRecord == kMaxRecordType + 2

ZeroRun(n) ==
  [t |-> "zero", rec |-> 0, off |-> 0, n |-> n, len |-> 0, type |-> 0, crc |-> << >>]

DataRun(rec, off, n) ==
  [t |-> "data", rec |-> rec, off |-> off, n |-> n, len |-> 0, type |-> 0, crc |-> << >>]

HeaderRun(rec, crc, len, type) ==
  [t |-> "hdr", rec |-> rec, off |-> 0, n |-> kHeaderSize, len |-> len,
   type |-> type, crc |-> crc]

RECURSIVE FileLen(_)
FileLen(f) == IF f = << >> THEN 0 ELSE Head(f).n + FileLen(Tail(f))

\* The first k bytes of f
RECURSIVE TakeBytes(_, _)
TakeBytes(f, k) ==
  IF k <= 0 \/ f = << >> THEN << >>
  ELSE IF Head(f).n <= k THEN <<Head(f)>> \o TakeBytes(Tail(f), k - Head(f).n)
  ELSE <<[Head(f) EXCEPT !.n = k]>>

\* f without its first k bytes
RECURSIVE DropBytes(_, _)
DropBytes(f, k) ==
  IF k <= 0 \/ f = << >> THEN f
  ELSE IF Head(f).n <= k THEN DropBytes(Tail(f), k - Head(f).n)
  ELSE <<[Head(f) EXCEPT !.n = @ - k,
                         !.off = IF Head(f).t = "zero" THEN 0 ELSE @ + k]>>
       \o Tail(f)

\* Two runs that are one run of consecutive bytes
Adjoins(a, b) ==
  /\ a.t = b.t /\ a.rec = b.rec /\ a.len = b.len /\ a.type = b.type /\ a.crc = b.crc
  /\ a.t = "zero" \/ a.off + a.n = b.off

\* std::string::append / WritableFile::Append of the bytes of run r
AppendRun(f, r) ==
  IF r.n = 0 THEN f
  ELSE IF f # << >> /\ Adjoins(f[Len(f)], r)
  THEN [f EXCEPT ![Len(f)].n = @ + r.n]
  ELSE Append(f, r)

RECURSIVE AppendBytes(_, _)
AppendBytes(f, g) ==
  IF g = << >> THEN f ELSE AppendBytes(AppendRun(f, Head(g)), Tail(g))

\* The bytes of a payload are the payload's number plus 96 ("a", "b", ...)
PayloadByte(rec) == 96 + rec

\* The byte at offset i (from 0) of f, for the header fields the reader reads;
\* the four checksum bytes are read only as a whole, by StoredCrc.
RECURSIVE ByteAt(_, _)
ByteAt(f, i) ==
  LET r == Head(f)
  IN IF i >= r.n THEN ByteAt(Tail(f), i - r.n)
     ELSE IF r.t = "zero" THEN 0
     ELSE IF r.t = "data" THEN PayloadByte(r.rec)
     ELSE IF r.t = "flip" THEN PayloadByte(r.rec) + 128
     ELSE IF r.off + i = 4 THEN r.len % 256
     ELSE IF r.off + i = 5 THEN r.len \div 256
     ELSE IF r.off + i = 6 THEN r.type
     ELSE 0

\* crc32c::Value over the type byte and the payload bytes: the checksum is
\* taken to be collision-free, so it is modelled by the bytes it covers.
Crc32c(type, bytes) == <<type, bytes>>

\* The checksum in the first four bytes of f: the one a whole header holds,
\* or a value no checksum equals when the bytes are not a written header.
StoredCrc(f) ==
  IF f # << >> /\ Head(f).t = "hdr" /\ Head(f).off = 0 /\ Head(f).n >= 4
  THEN Head(f).crc ELSE <<"garbage">>

(***************************************************************************)
(* db/log_writer.cc                                                        *)
(***************************************************************************)

NewWriter == [dest_ |-> << >>, block_offset_ |-> 0]

\* AddRecord, the start of a block: the reset of block_offset_ without the
\* zero bytes
PadBlockNoZeros(w) ==
  IF kBlockSize - w.block_offset_ < kHeaderSize
  THEN [w EXCEPT !.block_offset_ = 0]
  ELSE w

\* AddRecord: fewer than kHeaderSize bytes left in the block are filled with
\* zeroes and the writer moves to a new block
PadBlock(w) ==
  LET leftover == kBlockSize - w.block_offset_
  IN IF leftover < kHeaderSize
     THEN [w EXCEPT !.dest_ = IF leftover > 0 THEN AppendRun(@, ZeroRun(leftover))
                              ELSE @,
                    !.block_offset_ = 0]
     ELSE w

\* AddRecord: the first fragment is First even when it is the whole record
FragmentTypeFirstAlways(begin, end) ==
  IF begin THEN kFirstType
  ELSE IF end THEN kLastType
  ELSE kMiddleType

\* AddRecord: every fragment that is not the only one is First or Last
FragmentTypeNoMiddle(begin, end) ==
  IF begin /\ end THEN kFullType
  ELSE IF begin THEN kFirstType
  ELSE kLastType

\* AddRecord: the type of a fragment from its place in the record
FragmentType(begin, end) ==
  IF begin /\ end THEN kFullType
  ELSE IF begin THEN kFirstType
  ELSE IF end THEN kLastType
  ELSE kMiddleType

\* EmitPhysicalRecord leaving block_offset_ as it was
EmitPhysicalRecordNoAdvance(w, t, rec, ptr, n) ==
  LET crc == Crc32c(t, IF n = 0 THEN << >> ELSE <<DataRun(rec, ptr, n)>>)
      f1 == AppendRun(w.dest_, HeaderRun(rec, crc, n, t))
      f2 == AppendRun(f1, DataRun(rec, ptr, n))
  IN [w EXCEPT !.dest_ = f2]

\* EmitPhysicalRecord of the n payload bytes of record rec from offset ptr
EmitPhysicalRecord(w, t, rec, ptr, n) ==
  LET crc == Crc32c(t, IF n = 0 THEN << >> ELSE <<DataRun(rec, ptr, n)>>)
      f1 == AppendRun(w.dest_, HeaderRun(rec, crc, n, t))
      f2 == AppendRun(f1, DataRun(rec, ptr, n))
  IN [w EXCEPT !.dest_ = f2, !.block_offset_ = @ + kHeaderSize + n]

\* The do-while loop of AddRecord
RECURSIVE AddRecordLoop(_, _, _, _, _)
AddRecordLoop(w, rec, ptr, left, begin) ==
  LET w1 == PadBlock(w)
      avail == kBlockSize - w1.block_offset_ - kHeaderSize
      fragment_length == IF left < avail THEN left ELSE avail
      end == left = fragment_length
      type == FragmentType(begin, end)
      w2 == EmitPhysicalRecord(w1, type, rec, ptr, fragment_length)
  IN IF left - fragment_length > 0
     THEN AddRecordLoop(w2, rec, ptr + fragment_length, left - fragment_length, FALSE)
     ELSE w2

\* Writer::AddRecord of the payload numbered rec, of the given size
WriterAddRecord(w, rec, size) == AddRecordLoop(w, rec, 0, size, TRUE)

(***************************************************************************)
(* db/log_reader.cc.  file_ is the file the reader was opened on and pos   *)
(* the position of the SequentialFile; reports lists the calls made to     *)
(* Reporter::Corruption as <<bytes, reason>>.                              *)
(***************************************************************************)

\* resync_end is not a member of Reader: it keeps, for the claims, the
\* type of the physical record at which resyncing_ was cleared and the file
\* offset just after that record.  block_start is not a member either: it
\* keeps the block_start_location computed by SkipToInitialBlock.
NoResyncEnd == [type |-> -1, next |-> 0]

NewReader(file, initial_offset) ==
  [file_ |-> file, pos |-> 0, checksum_ |-> TRUE,
   buffer_ |-> << >>, eof_ |-> FALSE,
   last_record_offset_ |-> 0, end_of_buffer_offset_ |-> 0,
   initial_offset_ |-> initial_offset, resyncing_ |-> initial_offset > 0,
   resync_end |-> NoResyncEnd,
   block_start |-> 0,
   reports |-> << >>]

\* Reader::ReportDrop; the unsigned subtraction wraps to a huge value when
\* bytes exceeds the offset of the buffer
ReportDrop(r, bytes, reason) ==
  LET d == r.end_of_buffer_offset_ - FileLen(r.buffer_) - bytes
  IN IF d < 0 \/ d >= r.initial_offset_
     THEN [r EXCEPT !.reports = Append(@, <<bytes, reason>>)]
     ELSE r

ReportCorruption(r, bytes, reason) == ReportDrop(r, bytes, reason)

\* SkipToInitialBlock moving on to the next block from any offset inside a
\* block
SkipToNextBlock(r) ==
  LET offset_in_block == r.initial_offset_ % kBlockSize
      start == r.initial_offset_ - offset_in_block
      block_start_location == IF offset_in_block > 0
                              THEN start + kBlockSize ELSE start
  IN [r EXCEPT !.end_of_buffer_offset_ = block_start_location,
               !.block_start = block_start_location,
               !.pos = IF block_start_location > 0
                       THEN Min(@ + block_start_location, FileLen(r.file_))
                       ELSE @]

\* Reader::SkipToInitialBlock; SequentialFile::Skip does not fail
SkipToInitialBlock(r) ==
  LET offset_in_block == r.initial_offset_ % kBlockSize
      start == r.initial_offset_ - offset_in_block
      block_start_location == IF offset_in_block > kBlockSize - 6
                              THEN start + kBlockSize ELSE start
  IN [r EXCEPT !.end_of_buffer_offset_ = block_start_location,
               !.block_start = block_start_location,
               !.pos = IF block_start_location > 0
                       THEN Min(@ + block_start_location, FileLen(r.file_))
                       ELSE @]

\* ReadPhysicalRecord, a record longer than the buffer: corruption in the
\* middle of the file, a writer that died mid-record at its end
ShortRecord(r) ==
  LET drop_size == FileLen(r.buffer_)
      r1 == [r EXCEPT !.buffer_ = << >>]
  IN IF ~r.eof_
     THEN [r |-> ReportCorruption(r1, drop_size, "bad record length"),
           type |-> kBadRecord, result |-> << >>]
     ELSE [r |-> r1, type |-> kEof, result |-> << >>]

\* A checksum mismatch that drops the damaged physical record alone and
\* goes on with the next one of the buffer
ChecksumMismatchSkipRecord(r) ==
  LET length == ByteAt(r.buffer_, 4) + 256 * ByteAt(r.buffer_, 5)
      drop_size == kHeaderSize + length
  IN [r |-> ReportCorruption([r EXCEPT !.buffer_ = DropBytes(@, drop_size)],
                             drop_size, "checksum mismatch"),
      type |-> kBadRecord, result |-> << >>]

\* ReadPhysicalRecord, actual_crc != expected_crc: the rest of the buffer is
\* dropped, since the length itself may have been corrupted
ChecksumMismatch(r) ==
  LET drop_size == FileLen(r.buffer_)
  IN [r |-> ReportCorruption([r EXCEPT !.buffer_ = << >>],
                             drop_size, "checksum mismatch"),
      type |-> kBadRecord, result |-> << >>]

\* ReadPhysicalRecord, type == kZeroType && length == 0: the rest of the
\* buffer is skipped and nothing is reported
ZeroRecord(r) ==
  [r |-> [r EXCEPT !.buffer_ = << >>], type |-> kBadRecord, result |-> << >>]

\* Reader::ReadPhysicalRecord: the reader after the call, the type returned
\* and the fragment in *result
RECURSIVE ReadPhysicalRecord(_)
ReadPhysicalRecord(this) ==
  The({
  IF FileLen(r.buffer_) < kHeaderSize
  THEN IF ~r.eof_
       THEN LET data == TakeBytes(DropBytes(r.file_, r.pos), kBlockSize)
                size == FileLen(data)
            IN ReadPhysicalRecord(
                 [r EXCEPT !.buffer_ = data, !.pos = @ + size,
                           !.end_of_buffer_offset_ = @ + size,
                           !.eof_ = size < kBlockSize])
       ELSE [r |-> [r EXCEPT !.buffer_ = << >>], type |-> kEof, result |-> << >>]
  ELSE LET a == ByteAt(r.buffer_, 4)
           b == ByteAt(r.buffer_, 5)
           type == ByteAt(r.buffer_, 6)
           length == a + 256 * b
           size == FileLen(r.buffer_)
       IN IF kHeaderSize + length > size THEN ShortRecord(r)
          ELSE IF type = kZeroType /\ length = 0 THEN ZeroRecord(r)
          ELSE LET fragment == TakeBytes(DropBytes(r.buffer_, kHeaderSize), length)
               IN IF r.checksum_ /\ Crc32c(type, fragment) # StoredCrc(r.buffer_)
                  THEN ChecksumMismatch(r)
                  ELSE LET r1 == [r EXCEPT !.buffer_ = DropBytes(@, kHeaderSize + length)]
                       IN IF r1.end_of_buffer_offset_ - FileLen(r1.buffer_)
                               - kHeaderSize - length < r1.initial_offset_
                          THEN [r |-> r1, type |-> kBadRecord, result |-> << >>]
                          ELSE [r |-> r1, type |-> type, result |-> fragment]
  : r \in {this}})

\* ReadRecord at end of file, handing out the fragments read so far
AtEofReturnPartial(r, in_fragmented_record, scratch) ==
  [r |-> r, ok |-> in_fragmented_record, record |-> scratch]

\* ReadRecord, case kEof: a record cut short by the end of the file is dropped
AtEof(r, in_fragmented_record, scratch) ==
  [r |-> r, ok |-> FALSE, record |-> << >>]

\* A Full or First record met while a fragmented record is open is reported
\* even when the open record holds no bytes
PartialWithoutEndAlways(r, in_fragmented_record, scratch, record_type) ==
  IF in_fragmented_record
  THEN ReportCorruption(r, FileLen(scratch),
         IF record_type = kFullType THEN "partial record without end(1)"
         ELSE "partial record without end(2)")
  ELSE r

\* ReadRecord, cases kFullType and kFirstType, if (in_fragmented_record):
\* an open record that is empty is let go (the empty First that earlier
\* writers could leave at the end of a block), any other one is reported
PartialWithoutEnd(r, in_fragmented_record, scratch, record_type) ==
  IF in_fragmented_record /\ scratch # << >>
  THEN ReportCorruption(r, FileLen(scratch),
         IF record_type = kFullType THEN "partial record without end(1)"
         ELSE "partial record without end(2)")
  ELSE r

\* if (resyncing_): a First record is skipped as well and leaves the reader
\* resyncing
ResyncSkipFirst(r, record_type) ==
  [skip |-> r.resyncing_ /\ record_type \in {kFirstType, kMiddleType, kLastType},
   r |-> IF r.resyncing_ /\ record_type \notin {kFirstType, kMiddleType}
         THEN [r EXCEPT !.resyncing_ = FALSE,
                        !.resync_end = [type |-> record_type,
                                        next |-> r.end_of_buffer_offset_
                                                   - FileLen(r.buffer_)]]
         ELSE r]

\* ReadRecord, if (resyncing_): whether the loop goes on to the next physical
\* record at once (continue), and the reader once resyncing_ is set
Resync(r, record_type) ==
  [skip |-> r.resyncing_ /\ record_type \in {kMiddleType, kLastType},
   r |-> IF r.resyncing_ /\ record_type # kMiddleType
         THEN [r EXCEPT !.resyncing_ = FALSE,
                        !.resync_end = [type |-> record_type,
                                        next |-> r.end_of_buffer_offset_
                                                   - FileLen(r.buffer_)]]
         ELSE r]

\* The while loop of Reader::ReadRecord
RECURSIVE ReadRecordLoop(_, _, _, _)
ReadRecordLoop(r0, scratch, in_fragmented_record, prospective_record_offset) ==
  The({
  LET r == p.r
      fragment == p.result
      record_type == p.type
      physical_record_offset ==
        r.end_of_buffer_offset_ - FileLen(r.buffer_) - kHeaderSize - FileLen(fragment)
  IN The({
  LET rs == resync.r
  IN The({
     IF resync.skip
     THEN ReadRecordLoop(rs, scratch, in_fragmented_record, prospective_record_offset)
     ELSE IF record_type = kFullType
     THEN [r |-> [rb EXCEPT !.last_record_offset_ = physical_record_offset],
           ok |-> TRUE, record |-> fragment]
     ELSE IF record_type = kFirstType
     THEN ReadRecordLoop(rb, fragment, TRUE, physical_record_offset)
     ELSE IF record_type = kMiddleType
     THEN IF ~in_fragmented_record
          THEN ReadRecordLoop(
                 ReportCorruption(rs, FileLen(fragment),
                                  "missing start of fragmented record(1)"),
                 scratch, in_fragmented_record, prospective_record_offset)
          ELSE ReadRecordLoop(rs, AppendBytes(scratch, fragment), TRUE,
                              prospective_record_offset)
     ELSE IF record_type = kLastType
     THEN IF ~in_fragmented_record
          THEN ReadRecordLoop(
                 ReportCorruption(rs, FileLen(fragment),
                                  "missing start of fragmented record(2)"),
                 scratch, in_fragmented_record, prospective_record_offset)
          ELSE [r |-> [rs EXCEPT !.last_record_offset_ = prospective_record_offset],
                ok |-> TRUE, record |-> AppendBytes(scratch, fragment)]
     ELSE IF record_type = kEof
     THEN AtEof(rs, in_fragmented_record, scratch)
     ELSE IF record_type = kBadRecord
     THEN IF in_fragmented_record
          THEN ReadRecordLoop(
                 ReportCorruption(rs, FileLen(scratch), "error in middle of record"),
                 << >>, FALSE, prospective_record_offset)
          ELSE ReadRecordLoop(rs, scratch, in_fragmented_record,
                              prospective_record_offset)
     ELSE ReadRecordLoop(
            ReportCorruption(rs,
              FileLen(fragment) + (IF in_fragmented_record THEN FileLen(scratch) ELSE 0),
              "unknown record type"),
            << >>, FALSE, prospective_record_offset)
     \* a Full or First record met while a fragmented record is open
     : rb \in {PartialWithoutEnd(rs, in_fragmented_record, scratch, record_type)}})
     : resync \in {Resync(r, record_type)}})
     : p \in {ReadPhysicalRecord(r0)}})

\* Reader::ReadRecord: the reader after the call, the bool returned and *record
ReaderReadRecord(r) ==
  LET r1 == IF r.last_record_offset_ < r.initial_offset_
            THEN SkipToInitialBlock(r) ELSE r
  IN ReadRecordLoop(r1, << >>, FALSE, 0)

(***************************************************************************)
(* A writer appends records to an empty file; the file is then cut at some *)
(* offset (or left whole) and a fresh reader reads it to the end.          *)
(***************************************************************************)

MaxRecords == 3         \* AddRecord calls on one file

\* Payload sizes: empty, small, leaving exactly 7, 6 and 0 bytes of the first
\* block, one byte more than a block holds, and more than two blocks
PayloadSizes == {0, 10, 32754, 32755, 32761, 32762, 70000}

\* The offsets at which the runs of f start, f starting at offset at
RECURSIVE RunStarts(_, _)
RunStarts(f, at) ==
  IF f = << >> THEN {at} ELSE {at} \cup RunStarts(Tail(f), at + Head(f).n)

\* Where the file is cut: around every boundary of a header, a payload
\* fragment and a padding, and at every byte of every header
TruncationOffsets(f) ==
  {o \in UNION {(b - 1)..(b + kHeaderSize) : b \in RunStarts(f, 0)} :
     o >= 0 /\ o < FileLen(f)}

NotOpen == [open |-> FALSE, cut |-> FALSE, done |-> FALSE, r |-> NewReader(<< >>, 0)]

InitLog ==
  /\ log = NewWriter
  /\ written = << >>
  /\ reader = NotOpen
  /\ got = << >>
  /\ OnlyLog

AddRecord(size) ==
  /\ ~reader.open
  /\ Len(written) < MaxRecords
  /\ log' = WriterAddRecord(log, Len(written) + 1, size)
  /\ written' = Append(written, size)
  /\ UNCHANGED <<reader, got, notLog>>

\* A fresh Reader at offset 0 on the file as written
OpenReader ==
  /\ ~reader.open
  /\ reader' = [open |-> TRUE, cut |-> FALSE, done |-> FALSE,
                r |-> NewReader(log.dest_, 0)]
  /\ UNCHANGED <<log, written, got, notLog>>

\* A fresh Reader at offset 0 on the first `at` bytes of the file
OpenTruncated(at) ==
  /\ ~reader.open
  /\ reader' = [open |-> TRUE, cut |-> TRUE, done |-> FALSE,
                r |-> NewReader(TakeBytes(log.dest_, at), 0)]
  /\ UNCHANGED <<log, written, got, notLog>>

\* Reader::ReadRecord followed by LastRecordOffset, until it returns false
ReadRecord ==
  /\ reader.open /\ ~reader.done
  /\ \E res \in {ReaderReadRecord(reader.r)} :
        /\ reader' = [reader EXCEPT !.r = res.r, !.done = ~res.ok]
        /\ got' = IF res.ok
                  THEN Append(got, [record |-> res.record,
                                    offset |-> res.r.last_record_offset_])
                  ELSE got
  /\ UNCHANGED <<log, written, notLog>>

NextLog ==
  \/ \E size \in PayloadSizes : AddRecord(size)
  \/ OpenReader
  \/ \E at \in TruncationOffsets(log.dest_) : OpenTruncated(at)
  \/ ReadRecord

SpecLog == InitLog /\ [][NextLog]_vars

\* Where a reader is started: at, just before and just after the start of
\* every header, payload fragment and padding and the end of the file, and
\* around the last bytes of every block, from which SkipToInitialBlock
\* moves on to the next block
InitialOffsets(f) ==
  {o \in UNION {(b - 1)..(b + 1) : b \in RunStarts(f, 0)}
          \cup UNION {(b * kBlockSize - 8)..(b * kBlockSize - 5) :
                        b \in 1..(FileLen(f) \div kBlockSize + 1)} :
     o > 0}

\* A fresh Reader with initial_offset > 0 on the file as written
OpenAt(initial_offset) ==
  /\ ~reader.open
  /\ reader' = [open |-> TRUE, cut |-> FALSE, done |-> FALSE,
                r |-> NewReader(log.dest_, initial_offset)]
  /\ UNCHANGED <<log, written, got, notLog>>

NextLogAt ==
  \/ \E size \in PayloadSizes : AddRecord(size)
  \/ \E o \in InitialOffsets(log.dest_) : OpenAt(o)
  \/ ReadRecord

SpecLogAt == InitLog /\ [][NextLogAt]_vars

(* Scenarios S3 and S4: payloads of 10, 40000 and 7 bytes are written, one *)
(* payload byte of the second record is damaged, and the file is read.     *)

S3Sizes == <<10, 40000, 7>>

\* The next payload of S3 is written
S3Write ==
  /\ Len(written) < Len(S3Sizes)
  /\ AddRecord(S3Sizes[Len(written) + 1])

\* The offset of the damaged byte of f, f starting at offset at; -1 if none
RECURSIVE FlipAt(_, _)
FlipAt(f, at) ==
  IF f = << >> THEN -1
  ELSE IF Head(f).t = "flip" THEN at
  ELSE FlipAt(Tail(f), at + Head(f).n)

\* f with the payload byte at offset o damaged
FlipByte(f, o) ==
  TakeBytes(f, o)
    \o <<[TakeBytes(DropBytes(f, o), 1)[1] EXCEPT !.t = "flip"]>>
    \o DropBytes(f, o + 1)

\* The offsets of the first bytes, the last bytes and the middle bytes of
\* every fragment of the payload of record rec
RECURSIVE FlipOffsets(_, _, _)
FlipOffsets(f, at, rec) ==
  IF f = << >> THEN {}
  ELSE LET r == Head(f)
           here == IF r.t = "data" /\ r.rec = rec
                   THEN {o \in (at..(at + 7)) \cup ((at + r.n - 8)..(at + r.n - 1))
                                \cup ((at + r.n \div 2 - 1)..(at + r.n \div 2 + 1)) :
                           o >= at /\ o < at + r.n}
                   ELSE {}
       IN here \cup FlipOffsets(Tail(f), at + r.n, rec)

\* One byte of the payload of the middle record is damaged in the file
S4Flip(o) ==
  /\ ~reader.open
  /\ written = S3Sizes
  /\ FlipAt(log.dest_, 0) = -1
  /\ log' = [log EXCEPT !.dest_ = FlipByte(@, o)]
  /\ UNCHANGED <<written, reader, got, notLog>>

NextS4 ==
  \/ S3Write
  \/ \E o \in FlipOffsets(log.dest_, 0, 2) : S4Flip(o)
  \/ OpenReader
  \/ ReadRecord

SpecS4 == InitLog /\ [][NextS4]_vars

(* A file of physical records of any types, as writers of other versions   *)
(* or a log put together from pieces can leave it, is read from offset 0.  *)

MaxTyped == 3
TypedSizes == {0, 3}
WrittenTypes == {kFullType, kFirstType, kMiddleType, kLastType}

\* EmitPhysicalRecord(t, ptr, n) for a payload of its own
EmitTyped(t, n) ==
  /\ ~reader.open
  /\ Len(written) < MaxTyped
  /\ log' = EmitPhysicalRecord(log, t, Len(written) + 1, 0, n)
  /\ written' = Append(written, n)
  /\ UNCHANGED <<reader, got, notLog>>

NextLogTyped ==
  \/ \E t \in WrittenTypes, n \in TypedSizes : EmitTyped(t, n)
  \/ OpenReader
  \/ ReadRecord

SpecLogTyped == InitLog /\ [][NextLogTyped]_vars

(* A file of any contents: physical records of every type, among them the  *)
(* zero type and a type no writer knows, headers whose checksum or length  *)
(* does not fit the bytes that follow, runs of zero bytes and a record     *)
(* that fills a block; the file is read whole, cut short, or from an       *)
(* initial offset.                                                         *)

MaxPieces == 3
\* The first type byte after the ones a writer writes
kUnknownType == kMaxRecordType + 1

\* type, payload bytes, the length in the header, whether the checksum is
\* the one of the type and the payload
Piece(type, n, len, crc_ok) ==
  [zeros |-> 0, type |-> type, n |-> n, len |-> len, crc_ok |-> crc_ok]

ZeroPiece(n) == [zeros |-> n, type |-> 0, n |-> 0, len |-> 0, crc_ok |-> FALSE]

Pieces ==
  {Piece(t, 3, 3, TRUE) : t \in {kZeroType, kFullType, kFirstType, kLastType,
                                  kUnknownType}}
    \cup {Piece(kMiddleType, 0, 0, TRUE),
          Piece(kFullType, 3, 3, FALSE),
          Piece(kFullType, 3, 10, TRUE),
          Piece(kFirstType, 3, 40000, TRUE),
          Piece(kFullType, kBlockSize - kHeaderSize, kBlockSize - kHeaderSize, TRUE),
          ZeroPiece(3), ZeroPiece(kHeaderSize)}

\* The bytes of a piece appended to the file
AppendPiece(w, rec, p) ==
  IF p.zeros > 0
  THEN [w EXCEPT !.dest_ = AppendRun(@, ZeroRun(p.zeros)),
                 !.block_offset_ = (@ + p.zeros) % kBlockSize]
  ELSE LET payload == IF p.n = 0 THEN << >> ELSE <<DataRun(rec, 0, p.n)>>
           crc == IF p.crc_ok THEN Crc32c(p.type, payload) ELSE <<"garbage">>
           f1 == AppendRun(w.dest_, HeaderRun(rec, crc, p.len, p.type))
       IN [w EXCEPT !.dest_ = AppendRun(f1, DataRun(rec, 0, p.n)),
                    !.block_offset_ = (@ + kHeaderSize + p.n) % kBlockSize]

EmitPiece(p) ==
  /\ ~reader.open
  /\ Len(written) < MaxPieces
  /\ log' = AppendPiece(log, Len(written) + 1, p)
  /\ written' = Append(written, p.n + p.zeros)
  /\ UNCHANGED <<reader, got, notLog>>

\* Where the damaged file is cut: inside and just after every header
CutOffsets(f) ==
  {o \in UNION {{b + 3, b + kHeaderSize, b + kHeaderSize + 1} : b \in RunStarts(f, 0)} :
     o < FileLen(f)}

\* Where a reader of the damaged file starts
StartOffsets(f) ==
  {o \in {8, kBlockSize - 6, kBlockSize - 5, kBlockSize + 1} : o <= FileLen(f) + 1}

NextLogDamaged ==
  \/ \E p \in Pieces : EmitPiece(p)
  \/ OpenReader
  \/ \E at \in CutOffsets(log.dest_) : OpenTruncated(at)
  \/ \E o \in StartOffsets(log.dest_) : OpenAt(o)
  \/ ReadRecord

SpecLogDamaged == InitLog /\ [][NextLogDamaged]_vars /\ WF_vars(ReadRecord)

(* Claims about the log *)

\* The bytes of the payload given to the i-th AddRecord
Payload(i) == IF written[i] = 0 THEN << >> ELSE <<DataRun(i, 0, written[i])>>

\* The offsets in f (which starts at offset at) of the headers written for
\* record rec
RECURSIVE HeaderOffsets(_, _, _)
HeaderOffsets(f, at, rec) ==
  IF f = << >> THEN {}
  ELSE (IF Head(f).t = "hdr" /\ Head(f).rec = rec THEN {at} ELSE {})
         \cup HeaderOffsets(Tail(f), at + Head(f).n, rec)

\* The headers of type First in f, f starting at offset at: where each one
\* starts and the payload length it holds
RECURSIVE FirstHeaders(_, _)
FirstHeaders(f, at) ==
  IF f = << >> THEN {}
  ELSE (IF Head(f).t = "hdr" /\ Head(f).type = kFirstType
        THEN {[at |-> at, len |-> Head(f).len, rec |-> Head(f).rec]} ELSE {})
         \cup FirstHeaders(Tail(f), at + Head(f).n)

\* C27, as claimed: the Writer never emits a First record with a zero-length
\* payload; every First fragment AddRecord writes holds a payload byte.
C27_NoEmptyFirst ==
  \A h \in FirstHeaders(log.dest_, 0) : h.len > 0

\* C27, amended: a First record has a zero-length payload exactly when it is
\* written with kHeaderSize bytes left in the block, the header filling them;
\* every other First fragment holds a payload byte.
C27_EmptyFirstOnlyAtBlockTail ==
  \A h \in FirstHeaders(log.dest_, 0) :
    h.len = 0 <=> h.at % kBlockSize = kBlockSize - kHeaderSize

\* A payload of 32754 bytes left seven bytes of the first block, and the
\* next AddRecord, of ten bytes, put an empty First record in them; there is
\* also a First record that holds bytes.
C27_Witness ==
  /\ Len(written) >= 2 /\ written[1] = 32754 /\ written[2] = 10
  /\ [at |-> kBlockSize - kHeaderSize, len |-> 0, rec |-> 2]
       \in FirstHeaders(log.dest_, 0)
  /\ \E h \in FirstHeaders(log.dest_, 0) : h.len > 0

\* The physical records of f, f starting at offset at: where the header of
\* each one starts, where the record ends and its type
RECURSIVE PhysicalRecords(_, _)
PhysicalRecords(f, at) ==
  IF f = << >> THEN {}
  ELSE (IF Head(f).t = "hdr"
        THEN {[at |-> at, next |-> at + kHeaderSize + Head(f).len,
               type |-> Head(f).type]}
        ELSE {})
         \cup PhysicalRecords(Tail(f), at + Head(f).n)

\* The offset of the block at which a reader with this initial offset starts
FirstBlockRead(initial_offset) ==
  IF initial_offset % kBlockSize > kBlockSize - 6
  THEN initial_offset - (initial_offset % kBlockSize) + kBlockSize
  ELSE initial_offset - (initial_offset % kBlockSize)

\* ReadRecord has been called on the reader with a non-zero initial offset
ResyncCalled ==
  reader.open /\ reader.r.initial_offset_ > 0 /\ (reader.done \/ got # << >>)

\* C28, as claimed: a reader with a non-zero initial offset stays in resync
\* mode until it observes a Last or a Full record; a First record, a bad or
\* skipped record and the end of the file do not end resync mode.
C28_ResyncUntilLastOrFull ==
  (reader.open /\ reader.r.initial_offset_ > 0 /\ ~reader.r.resyncing_) =>
    reader.r.resync_end.type \in {kLastType, kFullType}

\* C28, amended: a reader with a non-zero initial offset is in resync mode
\* when made and stays in it, discarding the physical records it reads
\* without a report, as long as they are Middle records; the first outcome
\* that is not a Middle record ends resync mode: a Last record is discarded
\* too, and a Full or First record, a bad or skipped record and the end of the
\* file are then handled as they are outside resync mode.
C28_ResyncWhileMiddle ==
  /\ (reader.open /\ reader.r.initial_offset_ > 0 /\ ~ResyncCalled) =>
       reader.r.resyncing_ /\ reader.r.resync_end = NoResyncEnd
  /\ ResyncCalled =>
       LET r == reader.r
           e == r.resync_end
           recs == {p \in PhysicalRecords(r.file_, 0) :
                      p.at >= FirstBlockRead(r.initial_offset_)}
           before == {p \in recs : e.type = kEof \/ p.next < e.next}
           ending == {p \in recs : e.type # kEof /\ p.next = e.next}
       IN /\ ~r.resyncing_
          /\ e.type \in {kFullType, kFirstType, kLastType, kEof, kBadRecord}
          \* everything read before resync mode ended was a Middle record
          \* at or after the initial offset, dropped without a report
          /\ \A p \in before :
               /\ p.type = kMiddleType /\ p.at >= r.initial_offset_
               /\ \A i \in 1..Len(got) : got[i].offset >= p.next
          /\ e.type # kBadRecord => r.reports = << >>
          \* the record that ended it
          /\ e.type # kEof => \E p \in ending :
               /\ e.type = kBadRecord => p.at < r.initial_offset_
               /\ e.type # kBadRecord => p.type = e.type /\ p.at >= r.initial_offset_
               /\ e.type = kLastType => \A i \in 1..Len(got) : got[i].offset >= p.next
               /\ e.type \in {kFullType, kFirstType} => got[1].offset = p.at
          /\ e.type = kEof => got = << >> /\ reader.done

\* A record of 70000 bytes follows one of ten bytes and the reader was
\* started one byte into the First record: the First record is skipped as a
\* bad record, which ends resync mode, and the Middle and Last records that
\* follow are reported as missing their start.
C28_Witness ==
  /\ ResyncCalled /\ written = <<10, 70000>>
  /\ reader.r.initial_offset_ = 18
  /\ reader.r.resync_end.type = kBadRecord
  /\ Len(reader.r.reports) = 2
  /\ reader.done /\ got = << >>

\* The physical records of f in file order, f starting at offset at
RECURSIVE RecordSeq(_, _)
RecordSeq(f, at) ==
  IF f = << >> THEN << >>
  ELSE (IF Head(f).t = "hdr"
        THEN <<[at |-> at, len |-> Head(f).len, type |-> Head(f).type,
                rec |-> Head(f).rec]>>
        ELSE << >>)
         \o RecordSeq(Tail(f), at + Head(f).n)

\* The First record of the fragmented record that is in progress when the
\* j-th physical record is read: the last record before it that is not a
\* Middle record, if that is a First record; 0 if none is in progress
OpenFirst(recs, j) ==
  LET firsts == {i \in 1..(j - 1) :
                   /\ recs[i].type = kFirstType
                   /\ \A k \in (i + 1)..(j - 1) : recs[k].type = kMiddleType}
  IN IF firsts = {} THEN 0 ELSE CHOOSE i \in firsts : TRUE

\* The bytes of the records from the i-th to the j-th
RECURSIVE Accumulated(_, _, _)
Accumulated(recs, i, j) ==
  IF i > j THEN 0 ELSE recs[i].len + Accumulated(recs, i + 1, j)

\* The Full records read while a fragmented record is in progress
FullInProgress(recs) ==
  {j \in 1..Len(recs) : recs[j].type = kFullType /\ OpenFirst(recs, j) # 0}

\* The bytes reported as "partial record without end(1)", in order
PartialReports(reports) ==
  LET sel == SelectSeq(reports, LAMBDA x : x[2] = "partial record without end(1)")
  IN [i \in 1..Len(sel) |-> sel[i][1]]

\* The bytes open before each record of js, in file order
RECURSIVE OpenBytes(_, _, _)
OpenBytes(recs, js, j) ==
  IF j > Len(recs) THEN << >>
  ELSE (IF j \in js THEN <<Accumulated(recs, OpenFirst(recs, j), j - 1)>> ELSE << >>)
         \o OpenBytes(recs, js, j + 1)

\* Every Full record of the file has been returned, with its own payload
FullReturned(recs) ==
  \A j \in 1..Len(recs) : recs[j].type = kFullType =>
    \E i \in 1..Len(got) :
      /\ got[i].offset = recs[j].at
      /\ got[i].record = Payload(recs[j].rec)

\* C29, as claimed: a Full record read while a fragmented record is in
\* progress makes ReadRecord report "partial record without end" for the
\* bytes accumulated so far and return the payload of the Full record.
C29_PartialReported ==
  (reader.open /\ reader.done) =>
    LET recs == RecordSeq(reader.r.file_, 0)
    IN /\ PartialReports(reader.r.reports) = OpenBytes(recs, FullInProgress(recs), 1)
       /\ FullReturned(recs)

\* C29, amended: a Full record read while a fragmented record is in progress
\* makes ReadRecord report "partial record without end" for the bytes
\* accumulated so far, unless no byte was accumulated, in which case nothing
\* is reported; either way it returns the payload of the Full record.
C29_PartialReportedUnlessEmpty ==
  (reader.open /\ reader.done) =>
    LET recs == RecordSeq(reader.r.file_, 0)
        js == {j \in FullInProgress(recs) :
                 Accumulated(recs, OpenFirst(recs, j), j - 1) > 0}
    IN /\ PartialReports(reader.r.reports) = OpenBytes(recs, js, 1)
       /\ FullReturned(recs)

\* The file holds a First and a Middle record of three bytes each and a Full
\* record: the six bytes were reported and the Full record returned.
C29_Witness ==
  /\ reader.open /\ reader.done
  /\ written = <<3, 3, 3>>
  /\ [i \in 1..3 |-> RecordSeq(reader.r.file_, 0)[i].type]
       = <<kFirstType, kMiddleType, kFullType>>
  /\ reader.r.reports = <<<<6, "partial record without end(1)">>>>
  /\ Len(got) = 1 /\ got[1].record = Payload(3)

\* The physical records written for the payload numbered rec, in file order
FragmentsOf(rec) ==
  SelectSeq(RecordSeq(log.dest_, 0), LAMBDA p : p.rec = rec)

\* The payloads of 10, 40000 and 7 bytes are written and read back whole
S3ReadBack ==
  (written = S3Sizes /\ reader.open /\ reader.done) =>
    [j \in 1..Len(got) |-> got[j].record] = <<Payload(1), Payload(2), Payload(3)>>

\* C30, as claimed: of the payloads of 10, 40000 and 7 bytes written to an
\* empty log the second is stored as three physical records, First, Middle
\* and Last, over two blocks of 32 KiB, and the Reader returns the three
\* payloads in order with the bytes written.
C30_FirstMiddleLast ==
  (Len(written) >= 2 /\ FlipAt(log.dest_, 0) = -1) =>
    /\ [i \in 1..Len(FragmentsOf(2)) |-> FragmentsOf(2)[i].type]
         = <<kFirstType, kMiddleType, kLastType>>
    /\ S3ReadBack

\* C30, amended: the second payload is stored as two physical records, a
\* First record of 32744 bytes that fills the first block of 32 KiB and a
\* Last record of 7256 bytes at the start of the second, and the Reader
\* returns the three payloads in order with the bytes written.
C30_FirstLast ==
  (Len(written) >= 2 /\ FlipAt(log.dest_, 0) = -1) =>
    /\ [i \in 1..Len(FragmentsOf(2)) |-> FragmentsOf(2)[i].type]
         = <<kFirstType, kLastType>>
    /\ FragmentsOf(2)[1].at = kHeaderSize + 10
    /\ FragmentsOf(2)[1].at + kHeaderSize + FragmentsOf(2)[1].len = kBlockSize
    /\ FragmentsOf(2)[2].at = kBlockSize
    /\ FragmentsOf(2)[1].len + FragmentsOf(2)[2].len = 40000
    /\ S3ReadBack

\* The three payloads are written, nothing is damaged, and the reader has
\* returned all three and then false, with no report.
C30_Witness ==
  /\ written = S3Sizes /\ FlipAt(log.dest_, 0) = -1
  /\ reader.open /\ reader.done /\ Len(got) = 3
  /\ reader.r.reports = << >>
  /\ Len(FragmentsOf(2)) = 2 /\ FragmentsOf(2)[2].len = 7256

\* The file offset up to which ReadRecord has used the bytes of the file
Consumed(r) == r.end_of_buffer_offset_ - FileLen(r.buffer_)

\* The reasons of the corruptions reported so far
Reasons == {reader.r.reports[i][2] : i \in DOMAIN reader.r.reports}

C31_TrailingSixSkipped ==
  ResyncCalled =>
    LET offset_in_block == reader.r.initial_offset_ % kBlockSize
        block == reader.r.initial_offset_ - offset_in_block
    IN reader.r.block_start = IF offset_in_block >= kBlockSize - 6
                              THEN block + kBlockSize ELSE block

\* The file offset of the first physical fragment of record rec
FirstFragment(rec) ==
  CHOOSE o \in HeaderOffsets(log.dest_, 0, rec) :
    \A q \in HeaderOffsets(log.dest_, 0, rec) : o <= q

\* The file offset just past the last byte written for record rec
RECURSIVE EndOfRecord(_, _, _)
EndOfRecord(f, at, rec) ==
  IF f = << >> THEN 0
  ELSE LET e == EndOfRecord(Tail(f), at + Head(f).n, rec)
       IN IF e # 0 THEN e
          ELSE IF Head(f).rec = rec /\ Head(f).t # "zero" THEN at + Head(f).n
          ELSE 0

\* C3: a fresh Reader at offset 0 on the file the Writer produced from any
\* payloads returns exactly those payloads in order, each with
\* LastRecordOffset the offset of its first physical fragment, returns false
\* only after the last of them, and reports no corruption.
C3_LogRoundTrip ==
  (reader.open /\ ~reader.cut) =>
    /\ Len(got) <= Len(written)
    /\ \A i \in 1..Len(got) :
         got[i].record = Payload(i) /\ got[i].offset = FirstFragment(i)
    /\ reader.done => Len(got) = Len(written)
    /\ reader.r.reports = << >>

\* The whole file has been read back: an empty record, a record in three
\* fragments, and a record starting with an empty First fragment in the
\* last 7 bytes of a block.
C3_Witness ==
  /\ reader.open /\ ~reader.cut /\ reader.done
  /\ written = <<32754, 70000, 0>>
  /\ Len(got) = 3

\* C10: every physical record lies inside one block, block_offset_ is the
\* offset in the block of the end of the file and never exceeds kBlockSize,
\* and a block tail shorter than a header that is followed by a record
\* holds only zero bytes, the record starting at the block boundary.
C10_RecordsWithinBlocks ==
  LET f == log.dest_
      start(i) == FileLen(SubSeq(f, 1, i - 1))
  IN /\ log.block_offset_ >= 0 /\ log.block_offset_ <= kBlockSize
     /\ log.block_offset_ % kBlockSize = FileLen(f) % kBlockSize
     /\ \A i \in 1..Len(f) :
          /\ f[i].t = "hdr" =>
               /\ f[i].n = kHeaderSize
               /\ (start(i) % kBlockSize) + kHeaderSize + f[i].len <= kBlockSize
               /\ f[i].len > 0 =>
                    (i < Len(f) /\ f[i + 1].t = "data" /\ f[i + 1].n = f[i].len)
          /\ f[i].t = "data" => (i > 1 /\ f[i - 1].t = "hdr" /\ f[i - 1].len = f[i].n)
          /\ f[i].t = "zero" =>
               /\ f[i].n < kHeaderSize
               /\ (start(i) + f[i].n) % kBlockSize = 0
          /\ (i < Len(f) /\ f[i].t # "zero"
                /\ kBlockSize - ((start(i) + f[i].n) % kBlockSize) < kHeaderSize
                /\ ~(f[i].t = "hdr" /\ f[i].len > 0)) =>
               /\ f[i + 1].t = "zero"
               /\ f[i + 1].n = kBlockSize - ((start(i) + f[i].n) % kBlockSize)

\* A block tail of 6 bytes was zero-filled, the next record began at the
\* block boundary and filled its block exactly.
C10_Witness ==
  /\ \E i \in 1..Len(log.dest_) : log.dest_[i].t = "zero" /\ log.dest_[i].n = 6
  /\ log.block_offset_ = kBlockSize
  /\ Len(written) = 2

\* The records whose every byte is in the file the reader was opened on
WhollyInFile ==
  {i \in 1..Len(written) : EndOfRecord(log.dest_, 0, i) <= FileLen(reader.r.file_)}

\* C7: on a log cut at any byte offset the Reader returns written records
\* only, complete, unmodified and in order; once it has returned false it has
\* returned exactly the records that lie wholly before the cut; it reports
\* corruption at most once, and not at all for the cut-off tail.
C7_TruncatedLogPrefix ==
  (reader.open /\ reader.cut) =>
    /\ Len(got) <= Len(written)
    /\ \A i \in 1..Len(got) :
         got[i].record = Payload(i) /\ got[i].offset = FirstFragment(i)
    /\ \A i \in 1..Len(got) : i \in WhollyInFile
    /\ reader.done => \A i \in WhollyInFile : i <= Len(got)
    /\ Len(reader.r.reports) <= 1
    /\ reader.r.reports = << >>

\* The file was cut inside the last fragment of a record of three fragments
\* that follows a whole record; the reader has returned the whole record and
\* then false.
C7_Witness ==
  /\ reader.open /\ reader.cut /\ reader.done
  /\ written = <<10, 70000>>
  /\ FileLen(reader.r.file_) > 2 * kBlockSize + kHeaderSize
  /\ Len(got) = 1

\* The records whose first physical fragment starts at or after the offset
\* the reader was opened at, in file order
StartingAtOrAfter ==
  SelectSeq([i \in 1..Len(written) |-> i],
            LAMBDA i : FirstFragment(i) >= reader.r.initial_offset_)

\* C13: a Reader opened with initial_offset > 0 on a log the Writer produced
\* returns, in file order, records whose first physical fragment starts at
\* or after initial_offset, each whole and with that start as its
\* LastRecordOffset; once it has returned false it has returned all of them.
C13_InitialOffsetRecords ==
  (reader.open /\ reader.r.initial_offset_ > 0) =>
    /\ Len(got) <= Len(StartingAtOrAfter)
    /\ \A i \in 1..Len(got) :
         /\ got[i].record = Payload(StartingAtOrAfter[i])
         /\ got[i].offset = FirstFragment(StartingAtOrAfter[i])
         /\ got[i].offset >= reader.r.initial_offset_
    /\ reader.done => Len(got) = Len(StartingAtOrAfter)

\* The reader was started one byte into a record of three fragments that
\* follows a small record, and has returned the record after it and then
\* false.
C13_Witness ==
  /\ reader.open /\ reader.done
  /\ written = <<10, 70000, 10>>
  /\ reader.r.initial_offset_ = FirstFragment(2) + 1
  /\ Len(got) = 1

\* The offset of the damaged byte of the file, -1 if there is none
Damaged == FlipAt(log.dest_, 0)

\* The offset of the header of the fragment that holds the damaged byte
DamagedHeader ==
  CHOOSE h \in HeaderOffsets(log.dest_, 0, 2) :
    /\ h <= Damaged
    /\ \A q \in HeaderOffsets(log.dest_, 0, 2) : q <= Damaged => q <= h

\* The payload length of the fragment that holds the damaged byte
DamagedLength ==
  ByteAt(log.dest_, DamagedHeader + 4) + 256 * ByteAt(log.dest_, DamagedHeader + 5)

\* The end of the block that holds the damaged byte
DamagedBlockEnd ==
  Min((Damaged \div kBlockSize + 1) * kBlockSize, FileLen(log.dest_))

\* C19 as stated: with one payload byte of the fragmented record of the S3
\* log damaged, the Reader returns every other record, those before and
\* those after the damaged one, and makes exactly one corruption report, whose
\* byte count is the length of the damaged record.
C19_OnlyDamagedRecordLost ==
  (reader.done /\ Damaged # -1) =>
    /\ [j \in 1..Len(got) |-> got[j].record] = <<Payload(1), Payload(3)>>
    /\ Len(reader.r.reports) = 1
    /\ reader.r.reports[1][1] = written[2]

\* C19, amended: the Reader never returns the damaged record; it returns
\* every record before it and every record after it that starts in a later
\* block than the damaged byte, the rest of that block being dropped; and it
\* makes exactly two corruption reports: a checksum mismatch whose byte count
\* is the rest of the block from the header of the damaged fragment on, and
\* one whose byte count is the payload length of the other fragment of the
\* damaged record.
C19_RestOfBlockLost ==
  Damaged # -1 =>
    LET kept == {i \in 1..Len(written) :
                   i < 2 \/ (i > 2 /\ FirstFragment(i) >= DamagedBlockEnd)}
    IN /\ \A j \in 1..Len(got) : \E i \in kept : got[j].record = Payload(i)
       /\ reader.done =>
            /\ Len(got) = Cardinality(kept)
            /\ \A i \in kept : \E j \in 1..Len(got) : got[j].record = Payload(i)
            /\ Len(reader.r.reports) = 2
            /\ reader.r.reports[1] =
                 <<DamagedBlockEnd - DamagedHeader, "checksum mismatch">>
            /\ reader.r.reports[2][1] = written[2] - DamagedLength

\* The damaged byte is in the last fragment of the second record, in the
\* block where the third record is: the reader has returned the first record
\* and then false, with two reports.
C19_Witness ==
  /\ reader.done
  /\ Damaged >= kBlockSize
  /\ Len(got) = 1 /\ got[1].record = Payload(1)
  /\ Len(reader.r.reports) = 2
  /\ reader.r.reports[2] = <<kBlockSize - 17 - kHeaderSize, "error in middle of record">>

(***************************************************************************)
(* db/skiplist.h under its thread-safety contract: one thread in Insert,   *)
(* taking one step per store, and threads in Contains and in Iterator      *)
(* Seek and Next taking one step per load of a next pointer.               *)
(***************************************************************************)

NumReaders == 1
MaxKey == 3             \* the keys inserted are 1..MaxKey

WriterIdle ==
  [pc |-> "idle", key |-> 0, height |-> 0, x |-> NULL, i |-> 0,
   prev |-> [n \in 1..kMaxHeight |-> Uninit]]

ReaderIdle ==
  [pc |-> "idle", op |-> "none", key |-> 0, x |-> HeadNode, level |-> 0,
   begun |-> {}, from |-> 0, steps |-> 0, seen |-> {}, found |-> NULL]

InitSkip ==
  /\ skip = NewSkipList("uint64")
  /\ writer = WriterIdle
  /\ readers = [t \in 1..NumReaders |-> ReaderIdle]
  /\ completed = {}
  /\ OnlySkip

\* Insert, up to the choice of the height: FindGreaterOrEqual(key, prev) and
\* RandomHeight.  The key is not in the list (the caller's obligation).
InsertBegin(key, height) ==
  /\ writer.pc = "idle"
  /\ \A n \in DOMAIN skip.nodes : skip.nodes[n].key # key
  /\ writer' = [WriterIdle EXCEPT !.pc = "height", !.key = key, !.height = height,
                                  !.prev = FindGreaterOrEqual(skip, key).prev]
  /\ UNCHANGED <<skip, readers, completed, notSkip>>

\* Insert: prev[i] = head_ for the new levels, the store to max_height_, and
\* NewNode
InsertHeight ==
  /\ writer.pc = "height"
  /\ LET grows == writer.height > skip.max_height_
     IN /\ writer' = [writer EXCEPT
                        !.pc = "link",
                        !.x = Len(skip.nodes) + 1,
                        !.prev = IF grows
                                 THEN [n \in 1..kMaxHeight |->
                                         IF n > skip.max_height_ /\ n <= writer.height
                                         THEN HeadNode ELSE @[n]]
                                 ELSE @]
        /\ skip' = [skip EXCEPT
                      !.max_height_ = IF grows THEN writer.height ELSE @,
                      !.nodes = Append(@, [key |-> writer.key,
                                           next |-> [n \in 1..writer.height |-> Uninit]])]
  /\ UNCHANGED <<readers, completed, notSkip>>

\* Insert publishing the node at level i without having set its next pointer
LinkNewNodeNot(l, w) == l

\* Insert: x->NoBarrier_SetNext(i, prev[i]->NoBarrier_Next(i))
LinkNewNode(l, w) == SetNext(l, w.x, w.i, NodeNext(l, w.prev[w.i + 1], w.i))

InsertSetNext ==
  /\ writer.pc = "link"
  /\ skip' = LinkNewNode(skip, writer)
  /\ writer' = [writer EXCEPT !.pc = "publish"]
  /\ UNCHANGED <<readers, completed, notSkip>>

\* Insert: prev[i]->SetNext(i, x), and the return after the last level
InsertPublish ==
  /\ writer.pc = "publish"
  /\ skip' = SetNext(skip, writer.prev[writer.i + 1], writer.i, writer.x)
  /\ IF writer.i + 1 < writer.height
     THEN /\ writer' = [writer EXCEPT !.pc = "link", !.i = @ + 1]
          /\ UNCHANGED completed
     ELSE /\ writer' = WriterIdle
          /\ completed' = completed \cup {writer.key}
  /\ UNCHANGED <<readers, notSkip>>

\* A reader enters FindGreaterOrEqual(key, NULL), for Contains or for Seek.
\* GetMaxHeight is a load without a barrier: it returns a height the list
\* has or had.
ReaderBegin(t, op, key, h) ==
  /\ readers[t].pc \in {"idle", "done"}
  /\ readers' = [readers EXCEPT ![t] =
                   [ReaderIdle EXCEPT !.pc = "find", !.op = op, !.key = key,
                                      !.level = h - 1, !.begun = completed]]
  /\ UNCHANGED <<skip, writer, completed, notSkip>>

\* The reader after it moved to node n
MoveTo(rd, n) ==
  [rd EXCEPT !.x = n,
             !.from = IF rd.x = HeadNode THEN 0 ELSE skip.nodes[rd.x].key,
             !.steps = @ + 1]

\* One iteration of the loop of FindGreaterOrEqual: the load of x->Next(level)
\* and what follows it.  A load of a pointer that was never stored is
\* undefined; the reader is then lost.
ReaderFind(t) ==
  LET rd == readers[t]
      next == NodeNext(skip, rd.x, rd.level)
  IN /\ rd.pc = "find"
     /\ readers' = [readers EXCEPT ![t] =
          IF next = Uninit THEN [rd EXCEPT !.pc = "lost"]
          ELSE IF KeyIsAfterNode(skip, rd.key, next) THEN MoveTo(rd, next)
          ELSE IF rd.level > 0 THEN [rd EXCEPT !.level = @ - 1, !.steps = @ + 1]
          ELSE IF rd.op = "Contains"
          THEN [rd EXCEPT !.pc = "done", !.steps = @ + 1,
                  !.found = IF next # NULL /\ Equal(skip, rd.key, skip.nodes[next].key)
                            THEN next ELSE NULL]
          ELSE [MoveTo(rd, next) EXCEPT
                  !.pc = IF next = NULL THEN "done" ELSE "iter",
                  !.found = next,
                  !.seen = IF next = NULL THEN {} ELSE {skip.nodes[next].key}]]
     /\ UNCHANGED <<skip, writer, completed, notSkip>>

\* Iterator::Next on a valid iterator: node_ = node_->Next(0)
ReaderNext(t) ==
  LET rd == readers[t]
      next == NodeNext(skip, rd.x, 0)
  IN /\ rd.pc = "iter"
     /\ readers' = [readers EXCEPT ![t] =
          IF next = Uninit THEN [rd EXCEPT !.pc = "lost"]
          ELSE [MoveTo(rd, next) EXCEPT
                  !.pc = IF next = NULL THEN "done" ELSE "iter",
                  !.seen = IF next = NULL THEN @ ELSE @ \cup {skip.nodes[next].key}]]
     /\ UNCHANGED <<skip, writer, completed, notSkip>>

NextSkip ==
  \/ \E key \in 1..MaxKey, height \in 1..MaxHeight : InsertBegin(key, height)
  \/ InsertHeight
  \/ InsertSetNext
  \/ InsertPublish
  \/ \E t \in 1..NumReaders, key \in 1..MaxKey, h \in 1..skip.max_height_ :
       \/ ReaderBegin(t, "Contains", key, h)
       \/ ReaderBegin(t, "Seek", key, h)
  \/ \E t \in 1..NumReaders : ReaderFind(t) \/ ReaderNext(t)

SpecSkip == InitSkip /\ [][NextSkip]_vars

(* Claims about the skip list *)

SkipKey(n) == skip.nodes[n].key

\* Every pointer stored at some level of the head or of a node is NULL or
\* leads to a node that has that level, with its pointer there stored.
PublishedInitialised ==
  \A level \in 0..(kMaxHeight - 1) :
    \A p \in {HeadNode} \cup DOMAIN skip.nodes :
      (p = HeadNode \/ level + 1 <= Len(skip.nodes[p].next)) =>
        LET n == NodeNext(skip, p, level)
        IN n \notin {NULL, Uninit} =>
             /\ n \in DOMAIN skip.nodes
             /\ level + 1 <= Len(skip.nodes[n].next)
             /\ skip.nodes[n].next[level + 1] # Uninit

\* C4: with one thread in Insert and readers in Contains, Seek and Next, at
\* every interleaving of the writer's stores every node a reader can reach
\* is initialised: a reader is only ever at the head or at an allocated
\* node whose next pointer at the reader's level has been stored; every
\* node it moves to has a greater key than the one it left; it
\* makes no more loads than there are nodes and levels; Contains finds every
\* key whose Insert returned before it began and nothing that is not the key;
\* and Seek and Next visit, in order, every such key from the target on.
C4_ReadersSafeDuringInsert ==
  \A t \in 1..NumReaders :
    LET rd == readers[t]
    IN /\ PublishedInitialised
       /\ rd.pc # "lost"
       /\ rd.pc \in {"find", "iter"} =>
            /\ rd.x = HeadNode \/ rd.x \in DOMAIN skip.nodes
            /\ rd.x \in DOMAIN skip.nodes => rd.level + 1 <= Len(skip.nodes[rd.x].next)
            /\ NodeNext(skip, rd.x, rd.level) # Uninit
       /\ rd.x \in DOMAIN skip.nodes => SkipKey(rd.x) > rd.from
       /\ rd.steps <= Len(skip.nodes) + skip.max_height_ + 1
       /\ (rd.pc = "done" /\ rd.op = "Contains") =>
            /\ rd.key \in rd.begun => rd.found # NULL
            /\ rd.found # NULL => SkipKey(rd.found) = rd.key
       /\ (rd.pc \in {"iter", "done"} /\ rd.op = "Seek") =>
            /\ rd.found = NULL => \A k \in rd.begun : k < rd.key
            /\ rd.found # NULL =>
                 /\ SkipKey(rd.found) >= rd.key
                 /\ \A k \in rd.begun : k >= rd.key => SkipKey(rd.found) <= k
            /\ \A k \in rd.begun :
                 (k >= rd.key /\ (rd.x = NULL \/ k <= SkipKey(rd.x))) => k \in rd.seen

\* A reader that began after an Insert returned is iterating and stands on
\* the node the writer is linking: level 0 is published, level 1 is not.
C4_Witness ==
  /\ writer.pc = "publish" /\ writer.i = 1
  /\ \E t \in 1..NumReaders :
       /\ readers[t].pc = "iter"
       /\ readers[t].x = writer.x
       /\ readers[t].begun # {}
       /\ readers[t].from # 0

\* C11: whenever no Insert is in progress, after the Inserts of any distinct
\* keys in any order and with any heights, Contains(k) is true exactly for
\* the keys inserted; SeekToFirst and Next yield exactly the inserted keys,
\* each once, in ascending order; and Seek(k) stands on the least inserted
\* key >= k, or is invalid when there is none.
C11_SkipListContents ==
  writer.pc = "idle" =>
    LET keys == IterateKeys(skip, IteratorSeekToFirst(skip), Len(skip.nodes) + 1)
    IN /\ \A k \in 0..(MaxKey + 1) : SkipContains(skip, k) <=> k \in completed
       /\ Len(keys) = Cardinality(completed)
       /\ Range(keys) = completed
       /\ \A i \in 1..(Len(keys) - 1) : keys[i] < keys[i + 1]
       /\ \A k \in 0..(MaxKey + 1) :
            LET x == IteratorSeek(skip, k)
                ge == {c \in completed : c >= k}
            IN IF ge = {} THEN x = NULL
               ELSE /\ x \in DOMAIN skip.nodes
                    /\ SkipKey(x) \in ge
                    /\ \A c \in ge : SkipKey(x) <= c

\* All the keys were inserted, the least of them last and the greatest
\* first, one node at least being taller than one level.
C11_Witness ==
  /\ writer.pc = "idle"
  /\ completed = 1..MaxKey
  /\ Len(skip.nodes) = MaxKey
  /\ skip.nodes[1].key = MaxKey
  /\ skip.nodes[MaxKey].key = 1
  /\ skip.max_height_ > 1

(***************************************************************************)
(* table/filter_block.cc.  The filter policy is the caller's: here a       *)
(* filter is the sorted list of the hash bytes of its keys, which has      *)
(* false positives and no false negatives.                                 *)
(***************************************************************************)

kFilterBaseLg == 11
kFilterBase == Pow2(kFilterBaseLg)

\* table_builder.cc WriteRawBlock: one byte of type and a fixed32 checksum
kBlockTrailerSize == 1 + 4

RECURSIVE SortedSeq(_)
SortedSeq(S) ==
  IF S = {} THEN << >>
  ELSE LET m == CHOOSE x \in S : \A y \in S : x <= y
       IN <<m>> \o SortedSeq(S \ {m})

FilterHash(key) == (key[1] % 3) + 1

\* FilterPolicy::CreateFilter: the filter appended to dst for the keys given
PolicyCreateFilter(keys) == SortedSeq({FilterHash(keys[i]) : i \in DOMAIN keys})

\* FilterPolicy::KeyMayMatch
PolicyKeyMayMatch(key, flt) == \E i \in DOMAIN flt : flt[i] = FilterHash(key)

PutFixed32(dst, value) == dst \o EncodeFixed32(value)

NewFilterBlockBuilder ==
  [keys_ |-> << >>, start_ |-> << >>, result_ |-> << >>, filter_offsets_ |-> << >>]

GenerateFilter(fb) ==
  LET num_keys == Len(fb.start_)
  IN IF num_keys = 0
     THEN [fb EXCEPT !.filter_offsets_ = Append(@, Len(fb.result_))]
     ELSE LET start == Append(fb.start_, Len(fb.keys_))
              tmp_keys == [i \in 1..num_keys |->
                             SubStr(fb.keys_, start[i] + 1, start[i + 1] - start[i])]
          IN [fb EXCEPT !.filter_offsets_ = Append(@, Len(fb.result_)),
                        !.result_ = @ \o PolicyCreateFilter(tmp_keys),
                        !.keys_ = << >>,
                        !.start_ = << >>]

\* The loop of StartBlock
RECURSIVE StartBlockLoop(_, _)
StartBlockLoop(fb, filter_index) ==
  IF filter_index > Len(fb.filter_offsets_)
  THEN StartBlockLoop(GenerateFilter(fb), filter_index)
  ELSE fb

\* StartBlock closing a filter at every call
StartBlockAlways(fb, block_offset) == GenerateFilter(fb)

\* FilterBlockBuilder::StartBlock
StartBlock(fb, block_offset) == StartBlockLoop(fb, block_offset \div kFilterBase)

AddKey(fb, key) ==
  [fb EXCEPT !.start_ = Append(@, Len(fb.keys_)), !.keys_ = @ \o key]

RECURSIVE PutOffsets(_, _, _)
PutOffsets(dst, offsets, i) ==
  IF i > Len(offsets) THEN dst
  ELSE PutOffsets(PutFixed32(dst, offsets[i]), offsets, i + 1)

\* FilterBlockBuilder::Finish: the contents of the filter block
FilterBlockFinish(fb) ==
  LET f1 == IF fb.start_ # << >> THEN GenerateFilter(fb) ELSE fb
      array_offset == Len(f1.result_)
      r1 == PutOffsets(f1.result_, f1.filter_offsets_, 1)
  IN Append(PutFixed32(r1, array_offset), kFilterBaseLg)

\* FilterBlockReader::FilterBlockReader; data_ is offset 0 of contents and
\* offset_ = NULL is written -1
FilterBlockReader(contents) ==
  LET n == Len(contents)
      none == [contents |-> contents, offset_ |-> -1, num_ |-> 0, base_lg_ |-> 0]
  IN IF n < 5 THEN none
     ELSE LET last_word == DecodeFixed32(contents, n - 5)
          IN IF last_word > n - 5 THEN [none EXCEPT !.base_lg_ = contents[n]]
             ELSE [contents |-> contents, offset_ |-> last_word,
                   num_ |-> (n - 5 - last_word) \div 4, base_lg_ |-> contents[n]]

\* FilterBlockReader::KeyMayMatch
KeyMayMatch(rd, block_offset, key) ==
  LET index == block_offset \div Pow2(rd.base_lg_)
  IN IF index < rd.num_
     THEN LET start == DecodeFixed32(rd.contents, rd.offset_ + index * 4)
              limit == DecodeFixed32(rd.contents, rd.offset_ + index * 4 + 4)
          IN IF start <= limit /\ limit <= rd.offset_
             THEN PolicyKeyMayMatch(key, SubStr(rd.contents, start + 1, limit - start))
             ELSE IF start = limit THEN FALSE
             ELSE TRUE
     ELSE TRUE

(***************************************************************************)
(* table/block_builder.cc and table/table_builder.cc.  A value is given by *)
(* its size, and a block of the file by its kind, its offset, the size of  *)
(* its contents, its type byte and what it holds: the keys of a data       *)
(* block, the bytes of the filter block, the entries (key, handle) of the  *)
(* meta-index and index blocks, and the two handles of the footer.  The    *)
(* comparator of the options is the bytewise one.                          *)
(***************************************************************************)

\* BlockBuilder::BlockBuilder and Reset.  buffer_ is given as its size and as
\* its entries: the offset of each and the three lengths it begins with.
NewBlockBuilder ==
  [buffer_size |-> 0, restarts_ |-> <<0>>, counter_ |-> 0, last_key_ |-> << >>,
   keys |-> << >>, entries |-> << >>]

CurrentSizeEstimate(b) == b.buffer_size + Len(b.restarts_) * 4 + 4

\* BlockBuilder::Finish: the restart array and its length, which follow the
\* entries in the block
BlockFinish(b) == [restarts |-> b.restarts_, num_restarts |-> Len(b.restarts_)]

\* The length of the common prefix of a and b
RECURSIVE SharedPrefix(_, _, _)
SharedPrefix(a, b, shared) ==
  IF shared < Min(Len(a), Len(b)) /\ a[shared + 1] = b[shared + 1]
  THEN SharedPrefix(a, b, shared + 1)
  ELSE shared

\* A BlockBuilder::Add that shares the prefix with the key before at a
\* restart point too
BlockAddSharing(b, interval, key, value_size) ==
  LET restart == ~(b.counter_ < interval)
      shared == SharedPrefix(b.last_key_, key, 0)
      non_shared == Len(key) - shared
  IN [buffer_size |-> b.buffer_size + VarintLength(shared) + VarintLength(non_shared)
                        + VarintLength(value_size) + non_shared + value_size,
      restarts_ |-> IF restart THEN Append(b.restarts_, b.buffer_size) ELSE b.restarts_,
      counter_ |-> (IF restart THEN 0 ELSE b.counter_) + 1,
      last_key_ |-> SubStr(b.last_key_, 1, shared) \o SubStr(key, shared + 1, non_shared),
      keys |-> Append(b.keys, key),
      entries |-> Append(b.entries, [offset |-> b.buffer_size, shared |-> shared,
                                     non_shared |-> non_shared,
                                     value_size |-> value_size])]

\* BlockBuilder::Add of a key and a value of value_size bytes
BlockAdd(b, interval, key, value_size) ==
  LET restart == ~(b.counter_ < interval)
      shared == IF restart THEN 0 ELSE SharedPrefix(b.last_key_, key, 0)
      non_shared == Len(key) - shared
  IN [buffer_size |-> b.buffer_size + VarintLength(shared) + VarintLength(non_shared)
                        + VarintLength(value_size) + non_shared + value_size,
      restarts_ |-> IF restart THEN Append(b.restarts_, b.buffer_size) ELSE b.restarts_,
      counter_ |-> (IF restart THEN 0 ELSE b.counter_) + 1,
      last_key_ |-> SubStr(b.last_key_, 1, shared) \o SubStr(key, shared + 1, non_shared),
      keys |-> Append(b.keys, key),
      entries |-> Append(b.entries, [offset |-> b.buffer_size, shared |-> shared,
                                     non_shared |-> non_shared,
                                     value_size |-> value_size])]

\* A block of the file
FileBlock(kind, offset, size, type, keys, contents, entries) ==
  [kind |-> kind, offset |-> offset, size |-> size, type |-> type, keys |-> keys,
   contents |-> contents, entries |-> entries]

\* TableBuilder::TableBuilder; filter_policy is whether options.filter_policy
\* is set. index_entries lists what index_block holds.  The file is given as
\* the blocks written to it, with the calls made of its Append and Flush
\* counted in calls; the call numbered fail_at fails (none when it is 0).
\* returned is the status Finish returned.
NewTableBuilder(block_size, interval, compression, filter_policy) ==
  [options |-> [block_size |-> block_size, block_restart_interval |-> interval,
                compression |-> compression, filter_policy |-> filter_policy],
   file |-> << >>, offset |-> 0, data_block |-> NewBlockBuilder,
   index_block |-> NewBlockBuilder, index_entries |-> << >>,
   last_key |-> << >>, num_entries |-> 0, closed |-> FALSE,
   filter_block |-> IF filter_policy THEN StartBlock(NewFilterBlockBuilder, 0)
                    ELSE NewFilterBlockBuilder,
   pending_index_entry |-> FALSE, pending_handle |-> [offset |-> 0, size |-> 0],
   status |-> "OK", calls |-> 0, fail_at |-> 0, returned |-> ""]

\* TableBuilder::ok
ok(r) == r.status = "OK"

\* r->status = r->file->Append(...) or r->file->Flush(): one more call made of
\* the file, and its status
FileCall(r) ==
  [r EXCEPT !.calls = @ + 1,
            !.status = IF r.calls + 1 = r.fail_at THEN "IOError" ELSE "OK"]

\* BlockHandle::EncodeTo: the length of the two varint64
HandleEncodingLength(handle) == VarintLength(handle.offset) + VarintLength(handle.size)

\* WriteRawBlock: the block is appended, then its trailer when that Append
\* succeeded, and the offset moves when both did; the handle it sets is the
\* offset and the size of the block.  A block one of whose Appends failed is
\* in the file as "torn".
WriteRawBlock(r, kind, size, type, keys, contents, entries) ==
  The({IF ok(r2)
       THEN [r2 EXCEPT !.file = Append(@, FileBlock(kind, r.offset, size, type, keys,
                                                    contents, entries)),
                       !.offset = @ + size + kBlockTrailerSize]
       ELSE [r2 EXCEPT !.file = Append(@, FileBlock("torn", r.offset, size, type,
                                                    keys, contents, entries))] :
         r2 \in {IF ok(r1) THEN FileCall(r1) ELSE r1 : r1 \in {FileCall(r)}}})

\* The handle of a block of the file
HandleOf(block) == [offset |-> block.offset, size |-> block.size]

\* The handle WriteRawBlock set for the block written last
LastHandle(r) ==
  [offset |-> r.file[Len(r.file)].offset, size |-> r.file[Len(r.file)].size]

\* WriteBlock of the block b: compressed is the size of Snappy's output
WriteBlockOf(r, kind, b, entries, compressed) ==
  LET raw == CurrentSizeEstimate(b)
      snappy == r.options.compression = "kSnappyCompression"
                  /\ compressed < raw - (raw \div 8)
  IN WriteRawBlock(r, kind, IF snappy THEN compressed ELSE raw,
                   IF snappy THEN "kSnappyCompression" ELSE "kNoCompression",
                   IF kind = "data" THEN b.keys ELSE << >>, << >>, entries)

\* WriteBlock without block->Reset()
WriteBlockNoReset(r, compressed) ==
  LET r1 == WriteBlockOf(r, "data", r.data_block, << >>, compressed)
  IN [r1 EXCEPT !.pending_handle = LastHandle(r1)]

\* WriteBlock(&r->data_block, &r->pending_handle)
WriteBlock(r, compressed) ==
  LET r1 == WriteBlockOf(r, "data", r.data_block, << >>, compressed)
  IN [r1 EXCEPT !.pending_handle = LastHandle(r1),
                !.data_block = NewBlockBuilder]

\* TableBuilder::Flush; shrink is how many times smaller Snappy makes the block
TableFlush(r, shrink) ==
  IF ~ok(r) THEN r
  ELSE IF r.data_block.buffer_size = 0 THEN r
  ELSE The({[r2 EXCEPT !.filter_block = IF r.options.filter_policy
                                        THEN StartBlock(@, r2.offset) ELSE @] :
         r2 \in {IF ok(r1) THEN FileCall([r1 EXCEPT !.pending_index_entry = TRUE])
                  ELSE r1 :
           r1 \in {WriteBlock(r, CurrentSizeEstimate(r.data_block) \div shrink)}}})

\* r->index_block.Add(r->last_key, handle_encoding) once last_key is key
IndexAdd(r, key) ==
  [r EXCEPT !.last_key = key,
            !.index_block = BlockAdd(@, 1, key, HandleEncodingLength(r.pending_handle)),
            !.index_entries = Append(@, [key |-> key, handle |-> r.pending_handle]),
            !.pending_index_entry = FALSE]

\* The index entry of the block before is given the key that is being added
PendingIndexEntryNextKey(r, key) ==
  IF r.pending_index_entry THEN IndexAdd(r, key) ELSE r

\* TableBuilder::Add, if (r->pending_index_entry)
PendingIndexEntry(r, key) ==
  IF r.pending_index_entry
  THEN IndexAdd(r, FindShortestSeparator(r.last_key, key))
  ELSE r

\* TableBuilder::Add, after the pending index entry: the key goes to the
\* filter block and the data block
AddToBlocks(r, key, value_size) ==
  [r EXCEPT !.filter_block = IF r.options.filter_policy THEN AddKey(@, key) ELSE @,
            !.last_key = key,
            !.num_entries = @ + 1,
            !.data_block = BlockAdd(@, r.options.block_restart_interval,
                                    key, value_size)]

\* TableBuilder::Add, the end: Flush when the block has reached block_size
FlushIfFull(r, shrink) ==
  IF CurrentSizeEstimate(r.data_block) >= r.options.block_size
  THEN TableFlush(r, shrink)
  ELSE r

\* TableBuilder::Add without if (!ok()) return
TableAddUnchecked(r, key, value_size, shrink) ==
  The({FlushIfFull(r2, shrink) :
         r2 \in {AddToBlocks(r1, key, value_size) :
           r1 \in {PendingIndexEntry(r, key)}}})

\* TableBuilder::Add
TableAdd(r, key, value_size, shrink) ==
  IF ~ok(r) THEN r
  ELSE The({FlushIfFull(r2, shrink) :
         r2 \in {AddToBlocks(r1, key, value_size) :
           r1 \in {PendingIndexEntry(r, key)}}})

\* "filter." followed by the Name() of the policy, here "p"
FilterKey == <<102, 105, 108, 116, 101, 114, 46, 112>>

\* The footer naming the index block first
FooterSwapped(metaindex_handle, index_handle) ==
  <<[key |-> << >>, handle |-> index_handle],
    [key |-> << >>, handle |-> metaindex_handle]>>

\* Footer::set_metaindex_handle, set_index_handle: the handles of the footer
Footer(metaindex_handle, index_handle) ==
  <<[key |-> << >>, handle |-> metaindex_handle],
    [key |-> << >>, handle |-> index_handle]>>

\* Footer::kEncodedLength: two handles padded to 20 bytes each and the magic
kEncodedLength == 2 * 20 + 8

\* Finish: WriteRawBlock(r->filter_block->Finish(), kNoCompression, ...)
FinishFilterBlock(r) ==
  IF ok(r) /\ r.options.filter_policy
  THEN WriteRawBlock(r, "filter", Len(FilterBlockFinish(r.filter_block)),
                     "kNoCompression", << >>, FilterBlockFinish(r.filter_block), << >>)
  ELSE r

\* Finish: the meta-index block, which holds the handle of the filter block
\* just written when there is one
FinishMetaIndexBlock(r, shrink) ==
  LET meta_index_block ==
        IF r.options.filter_policy
        THEN BlockAdd(NewBlockBuilder, r.options.block_restart_interval, FilterKey,
                      HandleEncodingLength(LastHandle(r)))
        ELSE NewBlockBuilder
  IN IF ~ok(r) THEN r
     ELSE WriteBlockOf(r, "metaindex", meta_index_block,
                  IF r.options.filter_policy
                  THEN <<[key |-> FilterKey, handle |-> LastHandle(r)]>>
                  ELSE << >>,
                  CurrentSizeEstimate(meta_index_block) \div shrink)

\* Finish: the entry of the last data block, then the index block
FinishIndexBlock(r, shrink) ==
  LET r1 == IF r.pending_index_entry
            THEN IndexAdd(r, FindShortSuccessor(r.last_key))
            ELSE r
  IN IF ~ok(r) THEN r
     ELSE [WriteBlockOf(r1, "index", r1.index_block, r1.index_entries,
                        CurrentSizeEstimate(r1.index_block) \div shrink)
             EXCEPT !.index_block = NewBlockBuilder]

\* Finish: the footer, with the handles of the two blocks written last
FinishFooter(r) ==
  IF ~ok(r) THEN r
  ELSE The({IF ok(r1)
            THEN [r1 EXCEPT !.file = Append(@, FileBlock("footer", r.offset, kEncodedLength,
                                         "kNoCompression", << >>, << >>,
                                         Footer(HandleOf(r.file[Len(r.file) - 1]),
                                                HandleOf(r.file[Len(r.file)])))),
                            !.offset = @ + kEncodedLength]
            ELSE [r1 EXCEPT !.file = Append(@, FileBlock("torn", r.offset, kEncodedLength,
                                         "kNoCompression", << >>, << >>, << >>))] :
         r1 \in {FileCall(r)}})

\* return r->status
ReturnStatus(r) == [r EXCEPT !.returned = r.status]

\* TableBuilder::Finish
TableFinish(r, shrink) ==
  The({ReturnStatus(FinishFooter(r4)) :
         r4 \in {FinishIndexBlock(r3, shrink) :
           r3 \in {FinishMetaIndexBlock(r2, shrink) :
             r2 \in {FinishFilterBlock(r1) :
               r1 \in {[TableFlush(r, shrink) EXCEPT !.closed = TRUE]}}}}})

MaxAdds == 4            \* keys are <<1>> .. <<MaxAdds>>, added in ascending order
ValueSizes == {10, 3000}
BlockSizes == {16, 4096}

NoProbe == [called |-> FALSE, block_offset |-> 0, key |-> << >>, r |-> FALSE]

InitTable ==
  /\ \E bs \in BlockSizes, c \in {"kNoCompression", "kSnappyCompression"} :
       table = NewTableBuilder(bs, 2, c, TRUE)
  /\ probe = NoProbe
  /\ OnlyTable

\* TableBuilder::Add of the next key
BuilderAdd(key, value_size, shrink) ==
  /\ ~table.closed
  /\ table.num_entries > 0 => key[1] > table.last_key[1]
  /\ table' = TableAdd(table, key, value_size, shrink)
  /\ UNCHANGED <<probe, notTable>>

BuilderFlush(shrink) ==
  /\ ~table.closed
  /\ table' = TableFlush(table, shrink)
  /\ UNCHANGED <<probe, notTable>>

BuilderFinish(shrink) ==
  /\ ~table.closed
  /\ table' = TableFinish(table, shrink)
  /\ UNCHANGED <<probe, notTable>>

\* The filter block of the finished table
FilterContents ==
  table.file[CHOOSE i \in DOMAIN table.file : table.file[i].kind = "filter"].contents

DataBlocks == {i \in DOMAIN table.file : table.file[i].kind = "data"}

\* A reader of the finished table asks its filter about a key and the offset
\* of a data block
Probe(i, key) ==
  /\ table.closed
  /\ probe' = [called |-> TRUE, block_offset |-> table.file[i].offset, key |-> key,
               r |-> KeyMayMatch(FilterBlockReader(FilterContents),
                                 table.file[i].offset, key)]
  /\ UNCHANGED <<table, notTable>>

NextTable ==
  \/ \E k \in 1..MaxAdds, v \in ValueSizes, shrink \in 1..2 : BuilderAdd(<<k>>, v, shrink)
  \/ \E shrink \in 1..2 : BuilderFlush(shrink)
  \/ \E shrink \in 1..2 : BuilderFinish(shrink)
  \/ \E i \in DataBlocks, k \in 1..MaxAdds : Probe(i, <<k>>)

SpecTable == InitTable /\ [][NextTable]_vars

(* table/table_builder.cc: a table is built on a file whose Append and     *)
(* Flush can fail.                                                         *)

MaxFileCalls == 10      \* the calls a handler makes of the file, at most

\* The builder whose fail-th call of the file from here on fails (none when
\* fail is 0)
FailAt(r, fail) == [r EXCEPT !.fail_at = IF fail = 0 THEN 0 ELSE r.calls + fail]

\* The handler has returned: the calls it made of the file have been answered
Returned(r) == [r EXCEPT !.fail_at = 0]

FailingAdd(key, value_size, fail) ==
  /\ ~table.closed
  /\ table.num_entries > 0 => key[1] > table.last_key[1]
  /\ table' = Returned(TableAdd(FailAt(table, fail), key, value_size, 1))
  /\ UNCHANGED <<probe, notTable>>

FailingFlush(fail) ==
  /\ ~table.closed
  /\ table' = Returned(TableFlush(FailAt(table, fail), 1))
  /\ UNCHANGED <<probe, notTable>>

FailingFinish(fail) ==
  /\ ~table.closed
  /\ table' = Returned(TableFinish(FailAt(table, fail), 1))
  /\ UNCHANGED <<probe, notTable>>

\* TableBuilder::Abandon
TableAbandon(r) == [r EXCEPT !.closed = TRUE]

BuilderAbandon ==
  /\ ~table.closed
  /\ table' = TableAbandon(table)
  /\ UNCHANGED <<probe, notTable>>

InitTableFail ==
  /\ \E bs \in BlockSizes, fp \in BOOLEAN :
       table = NewTableBuilder(bs, 2, "kNoCompression", fp)
  /\ probe = NoProbe
  /\ OnlyTable

NextTableFail ==
  \/ \E k \in 1..MaxAdds, v \in ValueSizes, fail \in 0..MaxFileCalls :
       FailingAdd(<<k>>, v, fail)
  \/ \E fail \in 0..MaxFileCalls : FailingFlush(fail)
  \/ \E fail \in 0..MaxFileCalls : FailingFinish(fail)
  \/ BuilderAbandon

SpecTableFail == InitTableFail /\ [][NextTableFail]_vars

\* C35: in every state of a builder reached through Add, Flush, Finish and
\* Abandon, also after a write to the file has failed, pending_index_entry
\* is true only if the data block is empty.
C35_PendingOnlyIfEmpty ==
  table.pending_index_entry => table.data_block.buffer_size = 0

\* Flush wrote the block and the file's Flush failed: the index entry is
\* pending under a status that is not OK, and the builder is still open
C35_Witness ==
  /\ table.pending_index_entry
  /\ ~ok(table)
  /\ ~table.closed
  /\ table.num_entries > 1

\* C36: once the status is not OK it stays as it is: an Add or a Flush makes
\* no call of the file and leaves the entries counted and the size of the
\* file as they were, and so does Finish, which returns that status.
C36_StatusStays ==
  [][~ok(table) =>
       /\ table'.status = table.status
       /\ table'.calls = table.calls
       /\ table'.file = table.file
       /\ table'.num_entries = table.num_entries
       /\ table'.offset = table.offset
       /\ table'.returned # table.returned => table'.returned = table.status]_vars

\* With blocks of 16 bytes the Add of the one entry made the one call of the
\* file, which failed; Finish was called after it and returned the status
C36_Witness ==
  /\ table.options.block_size = 16
  /\ table.num_entries = 1
  /\ table.calls = 1
  /\ table.returned = "IOError"

(* table/table.cc: a table is built from keys that are strings of bytes,   *)
(* with or without a filter policy, and the finished file is read.         *)

SstKeys ==
  {<<97, 97, 97, 97>>, <<97, 97, 98, 98>>, <<97, 98, 99, 100>>, <<99>>}
SstBlockSizes == {16, 32, 4096}
SstIntervals == {1, 16}
SstValueSizes == {1, 10}

NoOffsetAsked == [called |-> FALSE, key |-> << >>, offset |-> 0]

InitSst ==
  /\ \E bs \in SstBlockSizes, interval \in SstIntervals, fp \in BOOLEAN,
        c \in {"kNoCompression", "kSnappyCompression"} :
       table = NewTableBuilder(bs, interval, c, fp)
  /\ probe = NoOffsetAsked
  /\ OnlyTable

\* TableBuilder::Add of a key after the last one in the order of bytes
SstAdd(key, value_size, shrink) ==
  /\ ~table.closed
  /\ table.num_entries > 0 => SliceCompare(key, table.last_key) > 0
  /\ table' = TableAdd(table, key, value_size, shrink)
  /\ UNCHANGED <<probe, notTable>>

\* The block of the given kind of a finished file
BlockOfKind(file, kind) == file[CHOOSE i \in DOMAIN file : file[i].kind = kind]

\* Block::Iter::Seek on the index block: the position of the first entry
\* whose key is at or after target, 0 if there is none (!Valid())
IndexSeek(entries, target) ==
  LET at == {i \in DOMAIN entries : SliceCompare(entries[i].key, target) >= 0}
  IN IF at = {} THEN 0 ELSE CHOOSE i \in at : \A j \in at : i <= j

\* ApproximateOffsetOf giving the offset of the meta-index block for every key
ApproximateOffsetOfEnd(file, key) ==
  BlockOfKind(file, "footer").entries[1].handle.offset

\* Table::ApproximateOffsetOf on the file, its footer and index block read by
\* Table::Open; the handles of the index block decode
ApproximateOffsetOf(file, key) ==
  LET index_block == BlockOfKind(file, "index").entries
      metaindex_handle == BlockOfKind(file, "footer").entries[1].handle
      index_iter == IndexSeek(index_block, key)
  IN IF index_iter # 0 THEN index_block[index_iter].handle.offset
     ELSE metaindex_handle.offset

\* table->ApproximateOffsetOf(key) on the finished file
AskOffset(key) ==
  /\ table.closed
  /\ probe' = [called |-> TRUE, key |-> key,
               offset |-> ApproximateOffsetOf(table.file, key)]
  /\ UNCHANGED <<table, notTable>>

NextSst ==
  \/ \E key \in SstKeys, v \in SstValueSizes, shrink \in 1..2 : SstAdd(key, v, shrink)
  \/ \E shrink \in 1..2 : BuilderFlush(shrink)
  \/ \E shrink \in 1..2 : BuilderFinish(shrink)
  \/ \E key \in SstKeys : AskOffset(key)

SpecSst == InitSst /\ [][NextSst]_vars

(* table/block_builder.cc: a block is built with each restart interval.    *)

MaxRestartInterval == 3 \* block_restart_interval is 1..MaxRestartInterval
RestartKeys ==
  {<<97>>, <<97, 97>>, <<97, 97, 98>>, <<97, 98>>, <<97, 98, 99>>, <<98>>}
RestartValueSizes == {0, 200}

InitRestart ==
  /\ \E interval \in 1..MaxRestartInterval :
       table = NewTableBuilder(4096, interval, "kNoCompression", FALSE)
  /\ probe = NoProbe
  /\ OnlyTable

NextRestart ==
  \/ \E key \in RestartKeys, v \in RestartValueSizes : SstAdd(key, v, 1)
  \/ BuilderFlush(1)

SpecRestart == InitRestart /\ [][NextRestart]_vars

\* The length of the longest common prefix of a and b
LongestCommonPrefix(a, b) ==
  Cardinality({n \in 1..Min(Len(a), Len(b)) : SubSeq(a, 1, n) = SubSeq(b, 1, n)})

\* C39: in a block built with restart interval r the entries at positions
\* 0, r, 2r, ... have shared = 0 and their offsets are, in order, exactly
\* the restart array, which begins with 0 and is strictly increasing; every
\* other entry has as shared the length of the longest common prefix of its
\* key and the key before it.  (A block without entries has the restart
\* array of the one offset 0.)
C39_RestartPoints ==
  \A b \in {table.data_block}, r \in {table.options.block_restart_interval} :
    LET n == Len(b.entries)
        restarts == BlockFinish(b).restarts
    IN /\ BlockFinish(b).num_restarts = Len(restarts)
       /\ restarts[1] = 0
       /\ \A j \in 2..Len(restarts) : restarts[j - 1] < restarts[j]
       /\ n = 0 => restarts = <<0>>
       /\ n > 0 => restarts = [j \in 1..(((n - 1) \div r) + 1) |->
                                 b.entries[(j - 1) * r + 1].offset]
       /\ \A i \in 1..n :
            IF (i - 1) % r = 0
            THEN b.entries[i].shared = 0
            ELSE b.entries[i].shared = LongestCommonPrefix(b.keys[i - 1], b.keys[i])

\* A block of five entries built with interval 2: three restart points, the
\* third entry a restart point whose key has a prefix in common with the key
\* before it, and the fourth entry sharing two bytes
C39_Witness ==
  /\ table.options.block_restart_interval = 2
  /\ Len(table.data_block.entries) = 5
  /\ Len(table.data_block.restarts_) = 3
  /\ LongestCommonPrefix(table.data_block.keys[2], table.data_block.keys[3]) > 0
  /\ table.data_block.entries[3].shared = 0
  /\ table.data_block.entries[4].shared = 2

(* A FilterBlockReader is given the contents of a filter block as read from *)
(* a file that may be damaged, and is asked about keys and block offsets.   *)

MaxRawFilters == 2      \* entries of the offset array of the contents read

\* The bytes of the filters, the words of the offset array and of its start,
\* and the last byte, of the contents read
RawFilterData == {<< >>, <<1>>, <<1, 2>>}
RawWords == {0, 1, 2, 9}
RawBaseLg == {0, kFilterBaseLg}

\* The contents read: filters, an offset array, the start of the array and
\* base_lg, cut after any number of bytes
RawFilterContents ==
  UNION {
    {SubStr(c, 1, n) : n \in 0..Len(c)} :
      c \in {Append(PutFixed32(PutOffsets(data, words, 1), last_word), lg) :
               data \in RawFilterData,
               words \in UNION {[1..m -> RawWords] : m \in 0..MaxRawFilters},
               last_word \in RawWords,
               lg \in RawBaseLg}}

RawBlockOffsets == {0, 1, kFilterBase, 2 * kFilterBase}

\* Table::ReadFilter: the filter block read from the file
InitFilterRaw ==
  /\ \E contents \in RawFilterContents :
       table = [closed |-> TRUE,
                file |-> <<FileBlock("filter", 0, Len(contents), "kNoCompression",
                                     << >>, contents, << >>)>>]
  /\ probe = NoProbe
  /\ OnlyTable

\* FilterBlockReader::KeyMayMatch on the contents read
RawProbe(block_offset, key) ==
  /\ probe' = [called |-> TRUE, block_offset |-> block_offset, key |-> key,
               r |-> KeyMayMatch(FilterBlockReader(FilterContents), block_offset, key)]
  /\ UNCHANGED <<table, notTable>>

NextFilterRaw ==
  \E block_offset \in RawBlockOffsets, k \in 1..2 : RawProbe(block_offset, <<k>>)

SpecFilterRaw == InitFilterRaw /\ [][NextFilterRaw]_vars

(* Claims about the filter block *)

\* C8: on the finished table, for every data block and every key added to
\* it, KeyMayMatch(offset of the block, key) is true, whatever Add and Flush
\* calls and block sizes built the table.
C8_NoFalseNegatives ==
  table.closed =>
    /\ \A i \in DataBlocks :
         \A j \in DOMAIN table.file[i].keys :
           KeyMayMatch(FilterBlockReader(FilterContents), table.file[i].offset,
                       table.file[i].keys[j])
    /\ (probe.called /\ \E i \in DataBlocks :
          /\ table.file[i].offset = probe.block_offset
          /\ \E j \in DOMAIN table.file[i].keys : table.file[i].keys[j] = probe.key)
         => probe.r

\* The filter answered true for a key of a data block that starts in a 2 KiB
\* range another data block starts in, in a table that also has a data block
\* larger than 2 KiB and a filter that rejects some key.
C8_Witness ==
  /\ table.closed /\ probe.called /\ probe.r
  /\ \E i, j, b \in DataBlocks :
       /\ i # j
       /\ table.file[i].offset = probe.block_offset
       /\ \E n \in DOMAIN table.file[i].keys : table.file[i].keys[n] = probe.key
       /\ table.file[i].offset \div kFilterBase = table.file[j].offset \div kFilterBase
       /\ table.file[b].size > kFilterBase
       /\ \E k \in 1..MaxAdds :
            ~KeyMayMatch(FilterBlockReader(FilterContents), table.file[b].offset, <<k>>)

\* What is wrong with the filter block contents for a block offset: "short"
\* for fewer than 5 bytes, "array" for a start of the offset array out of
\* range, "index" for an index outside the array, "range" for a filter whose
\* start is after its limit or whose limit is beyond the start of the
\* array, and "none"
FilterError(contents, block_offset) ==
  LET n == Len(contents)
      array == DecodeFixed32(contents, n - 5)
      index == block_offset \div Pow2(contents[n])
      start == DecodeFixed32(contents, array + 4 * index)
      limit == DecodeFixed32(contents, array + 4 * index + 4)
  IN IF n < 5 THEN "short"
     ELSE IF array > n - 5 THEN "array"
     ELSE IF 4 * (index + 1) > n - 5 - array THEN "index"
     ELSE IF start > limit \/ limit > array THEN "range"
     ELSE "none"

\* C21 as stated: KeyMayMatch returns true whenever the block offset maps to
\* an index outside the offset array or the filter block is malformed
\* (contents shorter than 5 bytes, start of the offset array out of range, a
\* filter range whose start or limit is inconsistent or beyond the offset
\* array): an error never makes it return false.
C21_ErrorsMayMatch ==
  (probe.called /\ FilterError(FilterContents, probe.block_offset) # "none")
    => probe.r

(* Claims about the finished table *)

\* The blocks Finish has appended: those of file2 after the ones of file1
Appended(file1, file2) == SubSeq(file2, Len(file1) + 1, Len(file2))

Kinds(blocks) == [i \in DOMAIN blocks |-> blocks[i].kind]

\* C22: Finish appends to the file, in this order, the last pending data
\* block, the filter block (uncompressed, and only when a filter policy is
\* configured), the meta-index block, the index block and the footer, whose
\* two handles are the offset and size of the meta-index block and of the
\* index block just written.
C22_FinishLayout ==
  [][(~table.closed /\ table'.closed) =>
       \A appended \in {Appended(table.file, table'.file)} :
         /\ SubSeq(table'.file, 1, Len(table.file)) = table.file
         /\ Kinds(appended) =
              (IF table.data_block.keys # << >> THEN <<"data">> ELSE << >>)
                \o (IF table.options.filter_policy THEN <<"filter">> ELSE << >>)
                \o <<"metaindex", "index", "footer">>
         /\ appended[1].offset = table.offset
         /\ \A i \in 1..(Len(appended) - 1) :
              appended[i + 1].offset = appended[i].offset + appended[i].size + kBlockTrailerSize
         /\ \A i \in DOMAIN appended :
              /\ appended[i].kind = "data" => appended[i].keys = table.data_block.keys
              /\ appended[i].kind = "filter" =>
                   /\ appended[i].type = "kNoCompression"
                   /\ appended[i].contents = FilterBlockFinish(table'.filter_block)
              /\ appended[i].kind = "footer" =>
                   /\ appended[i].entries[1].handle = HandleOf(appended[i - 2])
                   /\ appended[i].entries[2].handle = HandleOf(appended[i - 1])
                   /\ table'.offset = appended[i].offset + kEncodedLength]_vars

\* Finish was called with a data block pending after another one, with a
\* filter policy: the file is two data blocks, the filter block, the
\* meta-index block, the index block and the footer.
C22_Witness ==
  /\ table.closed /\ table.options.filter_policy
  /\ Kinds(table.file) = <<"data", "data", "filter", "metaindex", "index", "footer">>
  /\ table.file[2].keys = <<<<97, 98, 99, 100>>, <<99>>>>
  /\ table.file[6].entries[1].handle = HandleOf(table.file[4])

\* The data blocks of the file, in file order
DataBlockSeq == SelectSeq(table.file, LAMBDA b : b.kind = "data")

\* C23: after Finish the index block holds exactly one entry per data block
\* written, in file order; the value of each entry is the (offset, size)
\* handle of its data block, and its key is at or after every key stored in
\* that block and before every key stored in the following data block.
C23_IndexEntries ==
  table.closed =>
    LET index == BlockOfKind(table.file, "index").entries
        data == DataBlockSeq
    IN /\ Len(index) = Len(data)
       /\ \A i \in DOMAIN data :
            /\ index[i].handle = HandleOf(data[i])
            /\ \A n \in DOMAIN data[i].keys :
                 ~BytewiseLess(index[i].key, data[i].keys[n])
            /\ i < Len(data) =>
                 \A n \in DOMAIN data[i + 1].keys :
                   BytewiseLess(index[i].key, data[i + 1].keys[n])

\* Three data blocks were written: the key of the first index entry is the
\* last key of its block, "aabb", that of the second is "b", between "abcd"
\* and "c", and the last entry has the short successor of "c".
C23_Witness ==
  /\ table.closed /\ Len(DataBlockSeq) = 3
  /\ DataBlockSeq[1].keys = <<<<97, 97, 97, 97>>, <<97, 97, 98, 98>>>>
  /\ DataBlockSeq[2].keys = <<<<97, 98, 99, 100>>>>
  /\ DataBlockSeq[3].keys = <<<<99>>>>
  /\ BlockOfKind(table.file, "index").entries[1].key = <<97, 97, 98, 98>>
  /\ BlockOfKind(table.file, "index").entries[2].key = <<98>>
  /\ BlockOfKind(table.file, "index").entries[3].key = <<100>>

\* The table of S5 is built: "aaaa", "aabb" and "abcd" with restart interval
\* 1, no compression and no filter
S5Built ==
  /\ table.closed /\ ~table.options.filter_policy
  /\ table.options.block_restart_interval = 1
  /\ table.options.compression = "kNoCompression"
  /\ table.num_entries = 3
  /\ \A i \in DOMAIN DataBlockSeq : \A n \in DOMAIN DataBlockSeq[i].keys :
       DataBlockSeq[i].keys[n]
         \in {<<97, 97, 97, 97>>, <<97, 97, 98, 98>>, <<97, 98, 99, 100>>}

\* The position among the data blocks of the one that holds key
DataBlockOf(key) ==
  CHOOSE i \in DOMAIN DataBlockSeq :
    \E n \in DOMAIN DataBlockSeq[i].keys : DataBlockSeq[i].keys[n] = key

\* C25, as claimed: for the table of S5, ApproximateOffsetOf("abcd") is
\* strictly greater than ApproximateOffsetOf("aaaa").
C25_OffsetsGrow ==
  S5Built =>
    ApproximateOffsetOf(table.file, <<97, 98, 99, 100>>)
      > ApproximateOffsetOf(table.file, <<97, 97, 97, 97>>)

\* C25, amended: for the table of S5, ApproximateOffsetOf("abcd") is at
\* least ApproximateOffsetOf("aaaa"), and greater exactly when "abcd" is in
\* a later data block than "aaaa"; when the three entries are in one data
\* block, as they are with blocks of 4096 bytes, both are 0.
C25_OffsetsGrowWithBlocks ==
  S5Built =>
    LET abcd == ApproximateOffsetOf(table.file, <<97, 98, 99, 100>>)
        aaaa == ApproximateOffsetOf(table.file, <<97, 97, 97, 97>>)
    IN /\ abcd >= aaaa
       /\ (abcd > aaaa) <=>
            (DataBlockOf(<<97, 98, 99, 100>>) > DataBlockOf(<<97, 97, 97, 97>>))
       /\ Len(DataBlockSeq) = 1 => (abcd = 0 /\ aaaa = 0)
       /\ (probe.called /\ probe.key = <<97, 98, 99, 100>>) => probe.offset = abcd

\* The table of S5 was built with blocks of 4096 bytes and values of one
\* byte, which makes one data block of 40 bytes, and ApproximateOffsetOf
\* ("abcd") has returned 0.
C25_Witness ==
  /\ S5Built /\ table.options.block_size = 4096
  /\ Len(DataBlockSeq) = 1 /\ DataBlockSeq[1].size = 40
  /\ probe.called /\ probe.key = <<97, 98, 99, 100>> /\ probe.offset = 0

(***************************************************************************)
(* db/write_batch.cc                                                       *)
(***************************************************************************)

kHeader == 12

\* util/coding.cc PutLengthPrefixedSlice
PutLengthPrefixedSlice(dst, value) == dst \o EncodeVarint32(Len(value)) \o value

\* GetLengthPrefixedSlice handing out the bytes that are there when the
\* length runs past the end of the input
GetLengthPrefixedSliceClipped(input) ==
  LET v == GetVarint32Ptr(input, 0, Len(input))
      n == Min(v.value, Len(input) - v.p)
  IN IF v.ok
     THEN [ok |-> TRUE, result |-> SubStr(input, v.p + 1, n),
           rest |-> SubStr(input, v.p + n + 1, Len(input) - v.p - n)]
     ELSE [ok |-> FALSE, result |-> << >>, rest |-> input]

\* util/coding.cc GetLengthPrefixedSlice(Slice* input, Slice* result): ok is
\* the bool returned, rest the input left
GetLengthPrefixedSliceFrom(input) ==
  LET v == GetVarint32Ptr(input, 0, Len(input))
  IN IF v.ok /\ Len(input) - v.p >= v.value
     THEN [ok |-> TRUE, result |-> SubStr(input, v.p + 1, v.value),
           rest |-> SubStr(input, v.p + v.value + 1, Len(input) - v.p - v.value)]
     ELSE [ok |-> FALSE, result |-> << >>, rest |-> input]

\* WriteBatch::Clear
BatchClear == [i \in 1..kHeader |-> 0]

Count(rep) == DecodeFixed32(rep, 8)

SetCount(rep, n) ==
  [i \in DOMAIN rep |-> IF i > 8 /\ i <= 12 THEN EncodeFixed32(n)[i - 8] ELSE rep[i]]

Sequence(rep) == DecodeFixed64(rep, 0)

SetSequence(rep, seq) ==
  [i \in DOMAIN rep |-> IF i <= 8 THEN EncodeFixed64(seq)[i] ELSE rep[i]]

BatchPut(rep, key, value) ==
  PutLengthPrefixedSlice(
    PutLengthPrefixedSlice(Append(SetCount(rep, Count(rep) + 1), kTypeValue), key),
    value)

BatchDelete(rep, key) ==
  PutLengthPrefixedSlice(Append(SetCount(rep, Count(rep) + 1), kTypeDeletion), key)

\* Append that leaves the count of dst as it was
BatchAppendKeepCount(dst, src) ==
  dst \o SubStr(src, kHeader + 1, Len(src) - kHeader)

\* WriteBatchInternal::Append
BatchAppend(dst, src) ==
  SetCount(dst, Count(dst) + Count(src)) \o SubStr(src, kHeader + 1, Len(src) - kHeader)

\* The loop of Iterate: calls lists the calls made on the handler
RECURSIVE IterateLoop(_, _, _, _)
IterateLoop(rep, input, found, calls) ==
  IF input = << >>
  THEN [status |-> IF found # Count(rep) THEN "WriteBatch has wrong count" ELSE "OK",
        calls |-> calls]
  ELSE LET tag == input[1]
           in1 == Tail(input)
       IN IF tag = kTypeValue
          THEN LET k == GetLengthPrefixedSliceFrom(in1)
                   v == GetLengthPrefixedSliceFrom(k.rest)
               IN IF k.ok /\ v.ok
                  THEN IterateLoop(rep, v.rest, found + 1,
                                   Append(calls, [type |-> kTypeValue, key |-> k.result,
                                                  value |-> v.result]))
                  ELSE [status |-> "bad WriteBatch Put", calls |-> calls]
          ELSE IF tag = kTypeDeletion
          THEN LET k == GetLengthPrefixedSliceFrom(in1)
               IN IF k.ok
                  THEN IterateLoop(rep, k.rest, found + 1,
                                   Append(calls, [type |-> kTypeDeletion, key |-> k.result,
                                                  value |-> << >>]))
                  ELSE [status |-> "bad WriteBatch Delete", calls |-> calls]
          ELSE [status |-> "unknown WriteBatch tag", calls |-> calls]

\* WriteBatch::Iterate
Iterate(rep) ==
  IF Len(rep) < kHeader
  THEN [status |-> "malformed WriteBatch (too small)", calls |-> << >>]
  ELSE IterateLoop(rep, SubStr(rep, kHeader + 1, Len(rep) - kHeader), 0, << >>)

\* MemTableInserter::Put and ::Delete applied to the calls from the i-th on
RECURSIVE MemTableInserter(_, _, _, _, _)
MemTableInserter(l, sequence_, calls, i, height) ==
  IF i > Len(calls) THEN l
  ELSE MemTableInserter(
         MemTableAdd(l, sequence_, calls[i].type, calls[i].key, calls[i].value, height),
         sequence_ + 1, calls, i + 1, height)

\* WriteBatchInternal::InsertInto: the status and the memtable afterwards
InsertInto(rep, memtable, height) ==
  LET it == Iterate(rep)
  IN [status |-> it.status,
      mem |-> MemTableInserter(memtable, Sequence(rep), it.calls, 1, height)]

MaxBatch == 3           \* records in a batch

BatchKeys == {<<97>>, [i \in 1..130 |-> 107]}
BatchValues == {<< >>, <<118>>}
Sequences == {0, 300}

\* The batch a caller builds from a cleared one by the Put and Delete calls
\* for ops
RECURSIVE BuildBatch(_, _)
BuildBatch(ops, i) ==
  IF i = 0 THEN BatchClear
  ELSE IF ops[i].type = kTypeValue
  THEN BatchPut(BuildBatch(ops, i - 1), ops[i].key, ops[i].value)
  ELSE BatchDelete(BuildBatch(ops, i - 1), ops[i].key)

BatchOpsSet ==
  [type : {kTypeValue}, key : BatchKeys, value : BatchValues]
    \cup [type : {kTypeDeletion}, key : BatchKeys, value : {<< >>}]

NoRun == [kind |-> "none", status |-> "", calls |-> << >>, mem |-> << >>]

InitBatch ==
  /\ batch = BatchClear
  /\ batchOps = << >>
  /\ batchRun = NoRun
  /\ OnlyBatch

Put(key, value) ==
  /\ Len(batchOps) < MaxBatch
  /\ batch' = BatchPut(batch, key, value)
  /\ batchOps' = Append(batchOps, [type |-> kTypeValue, key |-> key, value |-> value])
  /\ batchRun' = NoRun
  /\ UNCHANGED notBatch

Delete(key) ==
  /\ Len(batchOps) < MaxBatch
  /\ batch' = BatchDelete(batch, key)
  /\ batchOps' = Append(batchOps, [type |-> kTypeDeletion, key |-> key, value |-> << >>])
  /\ batchRun' = NoRun
  /\ UNCHANGED notBatch

\* WriteBatchInternal::Append of a batch built from ops
AppendBatch(ops) ==
  /\ Len(batchOps) + Len(ops) <= MaxBatch
  /\ batch' = BatchAppend(batch, BuildBatch(ops, Len(ops)))
  /\ batchOps' = batchOps \o ops
  /\ batchRun' = NoRun
  /\ UNCHANGED notBatch

BatchSetSequence(seq) ==
  /\ batch' = SetSequence(batch, seq)
  /\ batchRun' = NoRun
  /\ UNCHANGED <<batchOps, notBatch>>

\* WriteBatch::Iterate with a handler that records its calls
BatchIterate ==
  /\ LET it == Iterate(batch)
     IN batchRun' = [kind |-> "Iterate", status |-> it.status, calls |-> it.calls,
                     mem |-> << >>]
  /\ UNCHANGED <<batch, batchOps, notBatch>>

\* WriteBatchInternal::InsertInto a new memtable, whose entries are kept in
\* the order of their insertion
BatchInsertInto(height) ==
  /\ LET res == InsertInto(batch, NewSkipList("KeyComparator"), height)
     IN batchRun' = [kind |-> "InsertInto", status |-> res.status, calls |-> << >>,
                     mem |-> [i \in DOMAIN res.mem.nodes |-> res.mem.nodes[i].key]]
  /\ UNCHANGED <<batch, batchOps, notBatch>>

NextBatch ==
  \/ \E key \in BatchKeys, value \in BatchValues : Put(key, value)
  \/ \E key \in BatchKeys : Delete(key)
  \/ \E n \in 0..2 : \E ops \in [1..n -> BatchOpsSet] : AppendBatch(ops)
  \/ \E seq \in Sequences : BatchSetSequence(seq)
  \/ BatchIterate
  \/ \E height \in 1..MaxHeight : BatchInsertInto(height)

SpecBatch == InitBatch /\ [][NextBatch]_vars

(* A batch of a few records is built, its contents are replaced by damaged *)
(* ones (WriteBatchInternal::SetContents, SetCount) and Iterate is run.     *)

MaxRaw == 2             \* records in a batch whose contents are damaged
RawKeys == {<< >>, <<97>>}

\* The values a damaged byte takes: tag kTypeDeletion or a length of 0, an
\* unknown tag or a length of 2, and the first byte of a longer varint
DamageBytes == {0, 2, 129}

\* The contents rep is replaced by: the first n bytes of rep with at most one
\* byte after the header altered
DamagedContents(rep) ==
  {[j \in 1..n |-> IF j = i THEN v ELSE rep[j]] :
     n \in 0..Len(rep), i \in {0} \cup ((kHeader + 1)..Len(rep)), v \in DamageBytes}

RawPut(key, value) ==
  /\ batchRun.kind = "none"
  /\ Len(batchOps) < MaxRaw
  /\ Put(key, value)

RawDelete(key) ==
  /\ batchRun.kind = "none"
  /\ Len(batchOps) < MaxRaw
  /\ Delete(key)

\* WriteBatchInternal::SetCount
BatchSetCount(n) ==
  /\ batchRun.kind = "none"
  /\ batch' = SetCount(batch, n)
  /\ UNCHANGED <<batchOps, batchRun, notBatch>>

\* WriteBatchInternal::SetContents; the assert on the size of the contents
\* is compiled out of a build with NDEBUG
BatchSetContents(contents) ==
  /\ batchRun.kind = "none"
  /\ batch' = contents
  /\ batchRun' = [NoRun EXCEPT !.kind = "SetContents"]
  /\ UNCHANGED <<batchOps, notBatch>>

RawIterate ==
  /\ batchRun.kind \in {"none", "SetContents"}
  /\ BatchIterate

NextBatchRaw ==
  \/ \E key \in RawKeys, value \in BatchValues : RawPut(key, value)
  \/ \E key \in RawKeys : RawDelete(key)
  \/ \E n \in 0..(MaxRaw + 1) : BatchSetCount(n)
  \/ \E contents \in DamagedContents(batch) : BatchSetContents(contents)
  \/ RawIterate

SpecBatchRaw == InitBatch /\ [][NextBatchRaw]_vars

(* The damaged batch is applied to a memtable.                             *)

RawInsertInto ==
  /\ batchRun.kind \in {"none", "SetContents"}
  /\ BatchInsertInto(1)

NextBatchApply ==
  \/ \E key \in RawKeys, value \in BatchValues : RawPut(key, value)
  \/ \E key \in RawKeys : RawDelete(key)
  \/ \E n \in 0..(MaxRaw + 1) : BatchSetCount(n)
  \/ \E contents \in DamagedContents(batch) : BatchSetContents(contents)
  \/ RawInsertInto

SpecBatchApply == InitBatch /\ [][NextBatchApply]_vars

(* Claims about the write batch *)

\* C9: after any Put, Delete and Append calls on a cleared batch the count in
\* the header is the number of records put in; Iterate returns OK after
\* calling the handler once per record, in insertion order, with the
\* record's type, key and value; and InsertInto returns OK after adding the
\* i-th record (from 0) to the memtable with sequence number Sequence + i.
C9_BatchCountAndOrder ==
  /\ Count(batch) = Len(batchOps)
  /\ batchRun.kind = "Iterate" => (batchRun.status = "OK" /\ batchRun.calls = batchOps)
  /\ batchRun.kind = "InsertInto" =>
       /\ batchRun.status = "OK"
       /\ Len(batchRun.mem) = Len(batchOps)
       /\ \A i \in 1..Len(batchOps) :
            batchRun.mem[i] = EncodeEntry(Sequence(batch) + i - 1, batchOps[i].type,
                                           batchOps[i].key, batchOps[i].value)

\* InsertInto has run on a batch with a non-zero sequence number that holds
\* a Put, a Delete and a record that Append brought, of a key 130 bytes long.
C9_Witness ==
  /\ batchRun.kind = "InsertInto"
  /\ Sequence(batch) = 300
  /\ Len(batchOps) = 3
  /\ batchOps[1].type = kTypeValue /\ batchOps[2].type = kTypeDeletion
  /\ Len(batchOps[3].key) = 130
  /\ Len(batchRun.mem) = 3

\* The varint32 at offset p of rep: the offset q of its last byte, the first
\* byte below 128 among the five from p on, or -1 when there is none in rep
VarintLast(rep, p) ==
  LET ends == {q \in p..Min(p + 4, Len(rep) - 1) : rep[q + 1] < 128}
  IN IF ends = {} THEN -1 ELSE CHOOSE q \in ends : \A e \in ends : q <= e

\* The value of the varint32 whose bytes are at offsets p..q of rep
RECURSIVE VarintValue(_, _, _)
VarintValue(rep, p, q) ==
  IF p > q THEN 0 ELSE (rep[p + 1] % 128) + 128 * VarintValue(rep, p + 1, q)

\* The offset after the varstring at offset p of rep, or -1 when its length
\* is malformed or it runs past the end of rep
VarstringEnd(rep, p) ==
  LET q == VarintLast(rep, p)
  IN IF q = -1 THEN -1
     ELSE IF q + 1 + VarintValue(rep, p, q) > Len(rep) THEN -1
     ELSE q + 1 + VarintValue(rep, p, q)

\* The records of rep from offset p on, n being walked before: how many
\* records there are when they end where rep ends, and else what is wrong
\* at the first record that is not one
RECURSIVE WalkRecords(_, _, _)
WalkRecords(rep, p, n) ==
  IF p = Len(rep) THEN [end |-> "whole", records |-> n]
  ELSE IF rep[p + 1] \notin {kTypeValue, kTypeDeletion}
  THEN [end |-> "tag", records |-> n]
  ELSE LET k == VarstringEnd(rep, p + 1)
           v == IF rep[p + 1] = kTypeDeletion \/ k = -1 THEN k ELSE VarstringEnd(rep, k)
       IN IF v = -1 THEN [end |-> "varstring", records |-> n]
          ELSE WalkRecords(rep, v, n + 1)

\* C20: Iterate returns Corruption when the buffer is shorter than the
\* 12-byte header, when a record tag is neither Value nor Deletion, when a
\* key or value varstring is malformed or runs past the end of the buffer, or
\* when the count of the header differs from the number of records walked;
\* it returns OK in every other case.
C20_IterateCorruption ==
  batchRun.kind = "Iterate" =>
    IF Len(batch) < 12
    THEN batchRun.status = "malformed WriteBatch (too small)"
    ELSE LET w == WalkRecords(batch, 12, 0)
         IN /\ w.end = "tag" => batchRun.status = "unknown WriteBatch tag"
            /\ w.end = "varstring" =>
                 batchRun.status \in {"bad WriteBatch Put", "bad WriteBatch Delete"}
            /\ (w.end = "whole" /\ w.records # Count(batch)) =>
                 batchRun.status = "WriteBatch has wrong count"
            /\ (w.end = "whole" /\ w.records = Count(batch)) =>
                 batchRun.status = "OK"

\* Iterate has run on contents cut inside the value of the second record, a
\* Put, and returned Corruption after handing the first record to the
\* handler, the count of the header being that of the records put in.
C20_Witness ==
  /\ batchRun.kind = "Iterate"
  /\ batchRun.status = "bad WriteBatch Put"
  /\ Len(batchRun.calls) = 1
  /\ Len(batchOps) = 2 /\ Count(batch) = 2
  /\ WalkRecords(batch, 12, 0) = [end |-> "varstring", records |-> 1]

\* C34: applying a write batch to a memtable is all-or-nothing: when
\* InsertInto returns a status that is not OK, none of the records of the
\* batch has been added to the memtable.
C34_AllOrNothing ==
  (batchRun.kind = "InsertInto" /\ batchRun.status # "OK") => batchRun.mem = << >>

----------------------------------------------------------------------------
(***************************************************************************)
(* table/table.cc: Table::BlockReader.  The block cache is the shard of    *)
(* the cache model; the cache key of a block is its offset in the file and *)
(* its charge the size of the block.  The index value either decodes to a  *)
(* block handle or does not, and ReadBlock either fails or returns         *)
(* contents that are cachable or not.                                      *)
(***************************************************************************)

MaxBlockReads == 3      \* BlockReader calls

BlockOffsets == CacheKeys

\* Block::size() of the block at an offset
BlockSize(offset) == offset

\* new Block(contents); deleted counts the delete expressions run on it and
\* entry is the cache entry whose value it is
NewBlock(offset) == [offset |-> offset, deleted |-> 0, entry |-> NULL]

\* block_cache->Value(cache_handle)
Value(bs, e) == CHOOSE b \in DOMAIN bs : bs[b].entry = e

\* The cleanup is DeleteBlock whether or not the block is in the cache
RegisterCleanupDeleteBlock(block, cache_handle) ==
  [function |-> "DeleteBlock", block |-> block, handle |-> NULL]

\* BlockReader, if (block != NULL): the cleanup registered on the iterator
RegisterCleanup(block, cache_handle) ==
  IF cache_handle = NULL
  THEN [function |-> "DeleteBlock", block |-> block, handle |-> NULL]
  ELSE [function |-> "ReleaseBlock", block |-> NULL, handle |-> cache_handle]

NoCleanup == [function |-> "none", block |-> NULL, handle |-> NULL]

\* The iterator BlockReader returns: NewErrorIterator(s) without a block
NewIterator(block, cache_handle, s_ok) ==
  [block |-> block, cache_handle |-> cache_handle, ok |-> s_ok,
   cleanup |-> IF block # NULL THEN RegisterCleanup(block, cache_handle)
               ELSE NoCleanup,
   destroyed |-> FALSE]

\* Table::BlockReader: the cache, the heap of blocks and the iterator
\* returned.  decode_ok is the status of handle.DecodeFrom, read_ok and
\* cachable are the status and the contents ReadBlock gives.
BlockReader(rep, c, bs, decode_ok, offset, read_ok, cachable, fill_cache) ==
  IF ~decode_ok
  THEN [c |-> c, blocks |-> bs, iter |-> NewIterator(NULL, NULL, FALSE)]
  ELSE IF rep.block_cache
  THEN The({
       IF hit.e # NULL
       THEN [c |-> hit.c, blocks |-> bs,
             iter |-> NewIterator(Value(bs, hit.e), hit.e, TRUE)]
       ELSE IF ~read_ok
       THEN [c |-> hit.c, blocks |-> bs, iter |-> NewIterator(NULL, NULL, FALSE)]
       ELSE LET block == Len(bs) + 1
            IN IF cachable /\ fill_cache
               THEN LET cache_handle == Len(hit.c.handles) + 1
                    IN [c |-> CacheInsert(hit.c, offset, KeyHash(offset),
                                          BlockSize(offset)),
                        blocks |-> Append(bs, [NewBlock(offset) EXCEPT
                                                 !.entry = cache_handle]),
                        iter |-> NewIterator(block, cache_handle, TRUE)]
               ELSE [c |-> hit.c, blocks |-> Append(bs, NewBlock(offset)),
                     iter |-> NewIterator(block, NULL, TRUE)]
       : hit \in {CacheLookup(c, offset, KeyHash(offset))}})
  ELSE IF ~read_ok
  THEN [c |-> c, blocks |-> bs, iter |-> NewIterator(NULL, NULL, FALSE)]
  ELSE [c |-> c, blocks |-> Append(bs, NewBlock(offset)),
        iter |-> NewIterator(Len(bs) + 1, NULL, TRUE)]

\* Iterator::~Iterator: the cleanup registered is run, once
RunCleanup(c, bs, cleanup) ==
  IF cleanup.function = "DeleteBlock"
  THEN [c |-> c, blocks |-> [bs EXCEPT ![cleanup.block].deleted = @ + 1]]
  ELSE IF cleanup.function = "ReleaseBlock"
  THEN [c |-> CacheRelease(c, cleanup.handle), blocks |-> bs]
  ELSE [c |-> c, blocks |-> bs]

\* A table with or without options.block_cache; a cache of capacity 0
\* hands out handles and keeps nothing
InitBlock ==
  /\ \E block_cache \in BOOLEAN : tbl = [block_cache |-> block_cache]
  /\ \E cap \in {0, MaxCapacity} : shard = NewShard(cap)
  /\ held = << >>
  /\ lastOp = [op |-> "none", key |-> 0, e |-> NULL]
  /\ blockHeap = << >>
  /\ iters = << >>
  /\ OnlyBlock

\* Table::BlockReader is called with an index value and read options
ReadBlockAt(decode_ok, offset, read_ok, cachable, fill_cache) ==
  /\ Len(iters) < MaxBlockReads
  /\ \E res \in {BlockReader(tbl, shard, blockHeap, decode_ok, offset, read_ok,
                             cachable, fill_cache)} :
       /\ shard' = res.c
       /\ blockHeap' = res.blocks
       /\ iters' = Append(iters, res.iter)
       /\ held' = IF res.iter.cache_handle = NULL THEN held
                  ELSE IF res.iter.cache_handle > Len(held) THEN Append(held, 1)
                  ELSE [held EXCEPT ![res.iter.cache_handle] = @ + 1]
       /\ lastOp' = [op |-> "BlockReader", key |-> offset,
                     e |-> res.iter.cache_handle]
  /\ UNCHANGED <<tbl, notBlock>>

\* The iterator is deleted
DestroyIterator(i) ==
  /\ i \in DOMAIN iters
  /\ ~iters[i].destroyed
  /\ \E res \in {RunCleanup(shard, blockHeap, iters[i].cleanup)} :
       /\ shard' = res.c
       /\ blockHeap' = res.blocks
  /\ iters' = [iters EXCEPT ![i].destroyed = TRUE]
  /\ held' = IF iters[i].cache_handle = NULL THEN held
             ELSE [held EXCEPT ![iters[i].cache_handle] = @ - 1]
  /\ lastOp' = [op |-> "delete iter", key |-> 0, e |-> iters[i].cache_handle]
  /\ UNCHANGED <<tbl, notBlock>>

NextBlock ==
  \/ \E decode_ok, read_ok, cachable, fill_cache \in BOOLEAN,
        offset \in BlockOffsets :
       ReadBlockAt(decode_ok, offset, read_ok, cachable, fill_cache)
  \/ \E i \in 1..MaxBlockReads : DestroyIterator(i)

SpecBlock == InitBlock /\ [][NextBlock]_vars

(* Claims about the block reader *)

\* The delete expressions run on block b: by DeleteBlock, and by
\* DeleteCachedBlock, the deleter of the cache entry that holds it
Deletions(b) ==
  blockHeap[b].deleted
    + (IF blockHeap[b].entry = NULL THEN 0
       ELSE shard.handles[blockHeap[b].entry].deleted)

\* The iterators on block b, and those of them not yet destroyed
IteratorsOn(b) == {i \in DOMAIN iters : iters[i].block = b}

LiveOn(b) == {i \in IteratorsOn(b) : ~iters[i].destroyed}

\* C33: every block obtained through Table::BlockReader is cleaned up
\* exactly once, when its iterator is destroyed.  A block found in or
\* inserted into the cache is never deleted directly: each iterator on it
\* holds one cache handle and releases it exactly once, so the references of
\* its entry are the cache's own plus one per live iterator, and the deleter
\* runs once, after the last of them is gone.  A block that is not in the
\* cache has one iterator and is deleted exactly once, when that iterator is
\* destroyed.  A failed read leaves no block and no handle.
C33_BlockCleanedUpOnce ==
  /\ \A b \in DOMAIN blockHeap :
       /\ Deletions(b) <= 1
       /\ LiveOn(b) # {} => Deletions(b) = 0
       /\ IteratorsOn(b) # {}
       /\ IF blockHeap[b].entry = NULL
          THEN /\ Cardinality(IteratorsOn(b)) = 1
               /\ \A i \in IteratorsOn(b) :
                    /\ iters[i].cache_handle = NULL
                    /\ blockHeap[b].deleted = IF iters[i].destroyed THEN 1 ELSE 0
          ELSE LET e == blockHeap[b].entry
               IN /\ blockHeap[b].deleted = 0
                  /\ \A i \in IteratorsOn(b) : iters[i].cache_handle = e
                  /\ shard.handles[e].refs
                       = (IF shard.handles[e].in_cache THEN 1 ELSE 0)
                           + Cardinality(LiveOn(b))
                  /\ shard.handles[e].deleted
                       = IF shard.handles[e].refs = 0 THEN 1 ELSE 0
  /\ \A e \in DOMAIN shard.handles : \E b \in DOMAIN blockHeap : blockHeap[b].entry = e
  /\ \A i \in DOMAIN iters :
       IF iters[i].ok THEN iters[i].block \in DOMAIN blockHeap
       ELSE iters[i].block = NULL /\ iters[i].cache_handle = NULL

\* Three iterators have been destroyed: one on a block that was inserted into
\* the cache and is still cached, one on a block read with fill_cache off,
\* now deleted, and the error iterator of a failed read
C33_Witness ==
  /\ Len(iters) = 3 /\ \A i \in DOMAIN iters : iters[i].destroyed
  /\ Len(blockHeap) = 2
  /\ blockHeap[1].entry = 1 /\ shard.handles[1].in_cache /\ Deletions(1) = 0
  /\ blockHeap[2].entry = NULL /\ blockHeap[2].deleted = 1
  /\ ~iters[3].ok

====
